---- MODULE Spec2Model ----
(***************************************************************************)
(* A model of fake-end: the definition loader (src/server/loader.ts), the  *)
(* dispatch and template engine (src/server/index.ts) on top of Express 4, *)
(* the rendering function interpolateParams, the start of the process      *)
(* (src/cli/run.ts) and the mock generator (src/cli/generate.ts).          *)
(*                                                                         *)
(* Text is modelled character by character: a string is a sequence of      *)
(* one-character strings, so the regular expressions of the code are       *)
(* recursive operators over such sequences.  JavaScript values are records *)
(* tagged by their type (field t).                                         *)
(***************************************************************************)
EXTENDS Integers, Sequences, FiniteSets, TLC

VARIABLES
    \* ---- loader (loadMockEndpoints) ----
    mockFiles,   \* the definition files under the root: a set of file records
    allFiles,    \* [...yamlFiles, ...ymlFiles]: sequence of absolute paths
    fileIdx,     \* position of the for-loop over allFiles
    loaded,      \* const endpoints: ParsedEndpoint[] being built
    lpc,         \* "glob" | "loop" | "done"
    \* ---- server (createServer and the handlers it registers) ----
    endpoints,   \* the list createServer was given
    stack,       \* the Express router stack: registered layers, in order
    spc,         \* "create" | "serving" | "failed" (createServer threw) |
                 \* "crashed" (a handler threw)
    reqs,        \* the requests: id -> record
    now,         \* the clock (ms)
    \* ---- rendering (interpolateParams as a pure function) ----
    rin,         \* [obj, params, query, body]: the arguments
    rout,        \* the value returned
    rpc,         \* "call" | "returned"
    \* ---- the process (startServer) ----
    dirExists,   \* whether the root directory exists
    ppc,         \* "idle" | "check" | "load" | "listening" | "exited"
    \* ---- the generator (generateMockFromCurl) ----
    curlInfo,    \* what parseCurlCommand returned: [method, path]
    gpc          \* "idle" | "generate" | "written"

loaderVars == <<mockFiles, allFiles, fileIdx, loaded, lpc>>
serverVars == <<endpoints, stack, spc, reqs, now>>
renderVars == <<rin, rout, rpc>>
startVars == <<dirExists, ppc>>
genVars == <<curlInfo, gpc>>
vars == <<mockFiles, allFiles, fileIdx, loaded, lpc,
          endpoints, stack, spc, reqs, now, rin, rout, rpc, dirExists, ppc,
          curlInfo, gpc>>

----------------------------------------------------------------------------
(* Characters and strings *)

LowerLetters ==
    {"a","b","c","d","e","f","g","h","i","j","k","l","m",
     "n","o","p","q","r","s","t","u","v","w","x","y","z"}

UpperLetters ==
    {"A","B","C","D","E","F","G","H","I","J","K","L","M",
     "N","O","P","Q","R","S","T","U","V","W","X","Y","Z"}

Digits == {"0","1","2","3","4","5","6","7","8","9"}

\* \w of a JavaScript regular expression: [A-Za-z0-9_]
IsWordChar(c) == c \in LowerLetters \cup UpperLetters \cup Digits \cup {"_"}

UpperMap ==
    [a |-> "A", b |-> "B", c |-> "C", d |-> "D", e |-> "E", f |-> "F",
     g |-> "G", h |-> "H", i |-> "I", j |-> "J", k |-> "K", l |-> "L",
     m |-> "M", n |-> "N", o |-> "O", p |-> "P", q |-> "Q", r |-> "R",
     s |-> "S", t |-> "T", u |-> "U", v |-> "V", w |-> "W", x |-> "X",
     y |-> "Y", z |-> "Z"]

LowerMap ==
    [A |-> "a", B |-> "b", C |-> "c", D |-> "d", E |-> "e", F |-> "f",
     G |-> "g", H |-> "h", I |-> "i", J |-> "j", K |-> "k", L |-> "l",
     M |-> "m", N |-> "n", O |-> "o", P |-> "p", Q |-> "q", R |-> "r",
     S |-> "s", T |-> "t", U |-> "u", V |-> "v", W |-> "w", X |-> "x",
     Y |-> "y", Z |-> "z"]

\* String.prototype.toUpperCase / toLowerCase
ToUpperCase(s) ==
    [i \in 1..Len(s) |-> IF s[i] \in DOMAIN UpperMap THEN UpperMap[s[i]] ELSE s[i]]

ToLowerCase(s) ==
    [i \in 1..Len(s) |-> IF s[i] \in DOMAIN LowerMap THEN LowerMap[s[i]] ELSE s[i]]

StartsWith(s, p) == Len(p) <= Len(s) /\ SubSeq(s, 1, Len(p)) = p

EndsWith(s, p) == Len(p) <= Len(s) /\ SubSeq(s, Len(s) - Len(p) + 1, Len(s)) = p

Drop(s, n) == SubSeq(s, n + 1, Len(s))

\* s contains p as a substring
Contains(s, p) == \E i \in 1..(Len(s) - Len(p) + 1) : SubSeq(s, i, i + Len(p) - 1) = p

----------------------------------------------------------------------------
(* JavaScript values *)

Undef == [t |-> "undefined"]
Null == [t |-> "null"]
Bool(b) == [t |-> "boolean", v |-> b]
Num(n) == [t |-> "number", v |-> n]
Str(s) == [t |-> "string", v |-> s]
Arr(items) == [t |-> "array", v |-> items]
\* an object keeps its keys in insertion order: k[i] is the i-th key, v[i] its value
Obj(keys, vals) == [t |-> "object", k |-> keys, v |-> vals]
\* a built-in function of Object.prototype (constructor, toString, ...)
NativeFn(name) == [t |-> "function", v |-> name]

\* typeof x
TypeOf(x) ==
    CASE x.t = "undefined" -> "undefined"
      [] x.t = "boolean" -> "boolean"
      [] x.t = "number" -> "number"
      [] x.t = "string" -> "string"
      [] x.t = "function" -> "function"
      [] OTHER -> "object"   \* null, arrays and objects

\* ToBoolean(x): what `x || y` and `x && y` test
Truthy(x) ==
    CASE x.t = "undefined" -> FALSE
      [] x.t = "null" -> FALSE
      [] x.t = "boolean" -> x.v
      [] x.t = "number" -> x.v # 0
      [] x.t = "string" -> x.v # <<>>
      [] OTHER -> TRUE

ConstructorKey == <<"c","o","n","s","t","r","u","c","t","o","r">>

\* properties every plain object and array inherits from Object.prototype
ObjectPrototypeKeys ==
    { ConstructorKey,
      <<"t","o","S","t","r","i","n","g">>,
      <<"v","a","l","u","e","O","f">>,
      <<"h","a","s","O","w","n","P","r","o","p","e","r","t","y">> }

IndexOfKey(keys, key) ==
    IF \E i \in 1..Len(keys) : keys[i] = key
    THEN CHOOSE i \in 1..Len(keys) : keys[i] = key /\ \A j \in (i+1)..Len(keys) : keys[j] # key
    ELSE 0

ProtoKey == <<"_","_","p","r","o","t","o","_","_">>
LengthKey == <<"l","e","n","g","t","h">>

DigitValue(c) ==
    CASE c = "0" -> 0 [] c = "1" -> 1 [] c = "2" -> 2 [] c = "3" -> 3 [] c = "4" -> 4
      [] c = "5" -> 5 [] c = "6" -> 6 [] c = "7" -> 7 [] c = "8" -> 8 [] c = "9" -> 9

RECURSIVE DigitsToNat(_)
DigitsToNat(s) ==
    IF s = <<>> THEN 0 ELSE 10 * DigitsToNat(SubSeq(s, 1, Len(s) - 1)) + DigitValue(s[Len(s)])

\* key is an array index: the canonical decimal text of a natural number
IsArrayIndex(key) ==
    /\ key # <<>>
    /\ Len(key) <= 4
    /\ \A i \in 1..Len(key) : key[i] \in Digits
    /\ (Len(key) > 1 => key[1] # "0")

\* obj[key] on the object or array a parser produced: the own property, else
\* the one inherited from Object.prototype, else undefined
GetProp(obj, key) ==
    IF obj.t = "object" /\ IndexOfKey(obj.k, key) > 0 THEN obj.v[IndexOfKey(obj.k, key)]
    ELSE IF obj.t = "array" /\ key = LengthKey THEN Num(Len(obj.v))
    ELSE IF obj.t = "array" /\ IsArrayIndex(key) /\ DigitsToNat(key) < Len(obj.v)
         THEN obj.v[DigitsToNat(key) + 1]
    ELSE IF obj.t \in {"object", "array"} /\ key \in ObjectPrototypeKeys
         THEN NativeFn(IF key = ConstructorKey THEN <<"O","b","j","e","c","t">> ELSE key)
    ELSE IF obj.t \in {"object", "array"} /\ key = ProtoKey THEN Obj(<<>>, <<>>)
    ELSE Undef

HasOwn(obj, key) == obj.t = "object" /\ IndexOfKey(obj.k, key) > 0

DigitChar(d) ==
    CASE d = 0 -> "0" [] d = 1 -> "1" [] d = 2 -> "2" [] d = 3 -> "3" [] d = 4 -> "4"
      [] d = 5 -> "5" [] d = 6 -> "6" [] d = 7 -> "7" [] d = 8 -> "8" [] d = 9 -> "9"

RECURSIVE NatToString(_)
NatToString(n) == IF n < 10 THEN <<DigitChar(n)>> ELSE NatToString(n \div 10) \o <<DigitChar(n % 10)>>

RECURSIVE JoinStrings(_, _)
JoinStrings(strs, sep) ==
    IF strs = <<>> THEN <<>>
    ELSE IF Len(strs) = 1 THEN strs[1]
    ELSE strs[1] \o sep \o JoinStrings(Tail(strs), sep)

\* String(x): how String.prototype.replace turns the value its replacer
\* returns into text.  The text of a native function and of a plain object
\* are each one element here.
RECURSIVE JsToString(_)
JsToString(x) ==
    CASE x.t = "undefined" -> <<"u","n","d","e","f","i","n","e","d">>
      [] x.t = "null" -> <<"n","u","l","l">>
      [] x.t = "boolean" -> IF x.v THEN <<"t","r","u","e">> ELSE <<"f","a","l","s","e">>
      [] x.t = "number" -> IF x.v < 0 THEN <<"-">> \o NatToString(-x.v) ELSE NatToString(x.v)
      [] x.t = "string" -> x.v
      [] x.t = "array" ->
           JoinStrings([i \in 1..Len(x.v) |->
                          IF x.v[i].t \in {"undefined", "null"} THEN <<>> ELSE JsToString(x.v[i])],
                       <<",">>)
      [] x.t = "object" -> <<"[object Object]">>
      [] x.t = "function" -> <<"function ">> \o x.v \o <<"() { [native code] }">>

----------------------------------------------------------------------------
(* interpolateParams (src/server/index.ts:79-100) *)

\* the longest run of \w characters at the start of s: what (\w+) captures
RECURSIVE WordRun(_)
WordRun(s) ==
    IF s # <<>> /\ IsWordChar(Head(s)) THEN <<Head(s)>> \o WordRun(Tail(s)) ELSE <<>>

\* the replacer (match, key) => bag[key] || match, turned into text by replace
ReplacerOr(bag, key, match) ==
    IF Truthy(GetProp(bag, key)) THEN JsToString(GetProp(bag, key)) ELSE match

\* s.replace(/:(\w+)/g, (match, key) => params[key] || match)
RECURSIVE ReplaceColon(_, _)
ReplaceColon(s, params) ==
    IF s = <<>> THEN <<>>
    ELSE IF Head(s) = ":" /\ WordRun(Tail(s)) # <<>>
    THEN LET key == WordRun(Tail(s))
         IN ReplacerOr(params, key, <<":">> \o key)
              \o ReplaceColon(Drop(s, 1 + Len(key)), params)
    ELSE <<Head(s)>> \o ReplaceColon(Tail(s), params)

OpenQuery == <<"{","{","q","u","e","r","y",".">>
OpenBody == <<"{","{","b","o","d","y",".">>
CloseBraces == <<"}","}">>

\* s.replace(/\{\{<scope>\.(\w+)\}\}/g, (match, key) => bag[key] || match),
\* open being the text "{{<scope>."
RECURSIVE ReplaceBraces(_, _, _)
ReplaceBraces(s, open, bag) ==
    IF s = <<>> THEN <<>>
    ELSE IF StartsWith(s, open)
            /\ WordRun(Drop(s, Len(open))) # <<>>
            /\ StartsWith(Drop(s, Len(open) + Len(WordRun(Drop(s, Len(open))))), CloseBraces)
    THEN LET key == WordRun(Drop(s, Len(open)))
         IN ReplacerOr(bag, key, open \o key \o CloseBraces)
              \o ReplaceBraces(Drop(s, Len(open) + Len(key) + 2), open, bag)
    ELSE <<Head(s)>> \o ReplaceBraces(Tail(s), open, bag)

\* the mutant of InterpolateString that applies the three replacements in the
\* opposite order: body fields, then query parameters, then path parameters
InterpolateBodyFirst(s, params, query, body) ==
    ReplaceColon(ReplaceBraces(ReplaceBraces(s, OpenBody, body), OpenQuery, query), params)

\* the three chained replace calls on a string
InterpolateString(s, params, query, body) ==
    ReplaceBraces(ReplaceBraces(ReplaceColon(s, params), OpenQuery, query), OpenBody, body)

\* the positions of the entries that `result[key] = value` stores as own
\* properties of result = {}: assigning to __proto__ stores none
RECURSIVE StoredEntries(_, _)
StoredEntries(keys, i) ==
    IF i > Len(keys) THEN <<>>
    ELSE (IF keys[i] = ProtoKey THEN <<>> ELSE <<i>>) \o StoredEntries(keys, i + 1)

RECURSIVE interpolateParams(_, _, _, _)
interpolateParams(obj, params, query, body) ==
    CASE obj.t = "string" -> Str(InterpolateString(obj.v, params, query, body))
      [] obj.t = "array" ->
           Arr([i \in 1..Len(obj.v) |-> interpolateParams(obj.v[i], params, query, body)])
      [] obj.t = "object" ->
           LET kept == StoredEntries(obj.k, 1)
           IN Obj([j \in 1..Len(kept) |-> obj.k[kept[j]]],
                  [j \in 1..Len(kept) |->
                       interpolateParams(obj.v[kept[j]], params, query, body)])
      [] OTHER -> obj

----------------------------------------------------------------------------
(* The definition loader (src/server/loader.ts) *)

K_id == <<"i","d">>
K_q == <<"q">>
K_name == <<"n","a","m","e">>
K_email == <<"e","m","a","i","l">>
K_count == <<"c","o","u","n","t">>
K_ok == <<"o","k">>
K_method == <<"m","e","t","h","o","d">>
K_path == <<"p","a","t","h">>
K_status == <<"s","t","a","t","u","s">>
K_body == <<"b","o","d","y">>
K_delayMs == <<"d","e","l","a","y","M","s">>
K_filePath == <<"f","i","l","e","P","a","t","h">>
K_fullPath == <<"f","u","l","l","P","a","t","h">>

\* ['GET', 'POST', 'PUT', 'DELETE', 'PATCH']
ValidMethods == { <<"G","E","T">>, <<"P","O","S","T">>, <<"P","U","T">>, <<"D","E","L","E","T","E">>, <<"P","A","T","C","H">> }

Slash == <<"/">>
ExtYaml == <<".","y","a","m","l">>
ExtYml == <<".","y","m","l">>

\* the absolute path of the root directory (mockDir resolved)
AbsMockDir == <<"/","s","r","v","/","m","o","c","k">>

RECURSIVE JoinSegments(_)
JoinSegments(segs) ==
    IF segs = <<>> THEN <<>> ELSE Head(segs) \o Slash \o JoinSegments(Tail(segs))

\* A file is described by its directory below the root (a sequence of names),
\* its base name, its extension and its content; AbsPath is the text glob
\* returns for it with { absolute: true }.
AbsPath(f) == AbsMockDir \o Slash \o JoinSegments(f.dir) \o f.base \o <<".">> \o f.ext

\* the pattern `${mockDir}/**/*<ext>`: any depth, the name ends in ext and,
\* glob's dot option being off, does not start with a dot
GlobMatches(f, ext) ==
    /\ EndsWith(f.base \o <<".">> \o f.ext, ext)
    /\ Head(f.base \o <<".">> \o f.ext) # "."

\* path.relative(mockDir, filePath) for a file below the root
PathRelative(from, to) == IF StartsWith(to, from \o Slash) THEN Drop(to, Len(from) + 1) ELSE to

\* relativePath.replace(/\.(yaml|yml)$/, '')
StripExtension(s) ==
    IF EndsWith(s, ExtYaml) THEN SubSeq(s, 1, Len(s) - Len(ExtYaml))
    ELSE IF EndsWith(s, ExtYml) THEN SubSeq(s, 1, Len(s) - Len(ExtYml))
    ELSE s

\* the mutant of BasePath that has no special case for the index file
BasePathNoIndexCase(pathWithoutExt) == Slash \o pathWithoutExt

\* pathWithoutExt === 'index' ? '' : `/${pathWithoutExt}`
BasePath(pathWithoutExt) ==
    IF pathWithoutExt = <<"i","n","d","e","x">> THEN <<>> ELSE Slash \o pathWithoutExt

\* the mutant of CollapseSlashes whose regular expression lacks the g flag:
\* only the first run of slashes is replaced
RECURSIVE CollapseFirstRunOnly(_)
CollapseFirstRunOnly(s) ==
    IF Len(s) < 2 THEN s
    ELSE IF s[1] = "/" /\ s[2] = "/" THEN CollapseFirstRunOnly(Tail(s))
    ELSE IF s[1] = "/" THEN s
    ELSE <<s[1]>> \o CollapseFirstRunOnly(Tail(s))

\* fullPath.replace(/\/+/g, '/')
RECURSIVE CollapseSlashes(_)
CollapseSlashes(s) ==
    IF Len(s) < 2 THEN s
    ELSE IF s[1] = "/" /\ s[2] = "/" THEN CollapseSlashes(Tail(s))
    ELSE <<s[1]>> \o CollapseSlashes(Tail(s))

isValidEndpoint(endpoint) ==
    /\ Truthy(endpoint)
    /\ TypeOf(endpoint) = "object"
    /\ TypeOf(GetProp(endpoint, K_method)) = "string"
    /\ ToUpperCase(GetProp(endpoint, K_method).v) \in ValidMethods
    /\ TypeOf(GetProp(endpoint, K_path)) = "string"
    /\ TypeOf(GetProp(endpoint, K_status)) = "number"
    /\ GetProp(endpoint, K_body) # Undef

\* obj[key] = val in an object literal: a new key goes last, an existing one
\* keeps its place
SetProp(obj, key, val) ==
    IF IndexOfKey(obj.k, key) > 0
    THEN Obj(obj.k, [obj.v EXCEPT ![IndexOfKey(obj.k, key)] = val])
    ELSE Obj(Append(obj.k, key), Append(obj.v, val))

\* { ...endpoint, filePath, fullPath: fullPath.replace(/\/+/g, '/') }
ParsedEndpoint(endpoint, filePath, basePath) ==
    SetProp(SetProp(endpoint, K_filePath, Str(filePath)),
            K_fullPath, Str(CollapseSlashes(basePath \o GetProp(endpoint, K_path).v)))

\* the mutant of ResolveDeclarations whose loop ends at the first invalid
\* declaration (break for continue)
RECURSIVE ResolveUntilInvalid(_, _, _)
ResolveUntilInvalid(decls, filePath, basePath) ==
    IF decls = <<>> \/ ~isValidEndpoint(Head(decls)) THEN <<>>
    ELSE <<ParsedEndpoint(Head(decls), filePath, basePath)>>
           \o ResolveUntilInvalid(Tail(decls), filePath, basePath)

\* the inner loop: the resolved endpoints of the valid declarations, in order
RECURSIVE ResolveDeclarations(_, _, _)
ResolveDeclarations(decls, filePath, basePath) ==
    IF decls = <<>> THEN <<>>
    ELSE (IF isValidEndpoint(Head(decls))
          THEN <<ParsedEndpoint(Head(decls), filePath, basePath)>>
          ELSE <<>>) \o ResolveDeclarations(Tail(decls), filePath, basePath)

\* one pass of the body of `for (const filePath of allFiles)`: what the file
\* adds to endpoints.  A file that cannot be read or parsed throws into the
\* catch block, one whose content is no array is skipped by `continue`.
FileEndpoints(f) ==
    IF f.content.kind # "parsed" \/ f.content.value.t # "array" THEN <<>>
    ELSE ResolveDeclarations(
             f.content.value.v,
             AbsPath(f),
             BasePath(StripExtension(PathRelative(AbsMockDir, AbsPath(f)))))


----------------------------------------------------------------------------
(* Express 4 as createServer uses it (src/server/index.ts:6-22, 60) *)

\* The regular expression path-to-regexp builds for a route pattern, with
\* Express's defaults (case-insensitive, not strict), run on a request path:
\*   "/:name" and ":name" become a capture of one or more characters other
\*   than "/", taken as short as possible; any other character of the
\*   patterns modelled here stands for itself, in either letter case; the
\*   pattern is followed by an optional "/" and the end of the path.
\* caps are the captures made so far, each <<name, text>>.
RECURSIVE MatchFrom(_, _, _)
MatchFrom(pat, path, caps) ==
    IF pat = <<>> THEN [ok |-> path = <<>> \/ path = <<"/">>, caps |-> caps]
    ELSE LET slashKey == Len(pat) >= 2 /\ pat[1] = "/" /\ pat[2] = ":"
                            /\ WordRun(Drop(pat, 2)) # <<>>
             bareKey == pat[1] = ":" /\ WordRun(Tail(pat)) # <<>>
             off == IF slashKey THEN 1 ELSE 0
             name == WordRun(Drop(pat, off + 1))
             rest == Drop(pat, off + 1 + Len(name))
             lens == { n \in 1..(Len(path) - off) :
                          /\ \A i \in 1..n : path[off + i] # "/"
                          /\ MatchFrom(rest, Drop(path, off + n), <<>>).ok }
             least == CHOOSE n \in lens : \A m \in lens : n <= m
         IN IF slashKey \/ bareKey
            THEN IF (slashKey => (path # <<>> /\ path[1] = "/")) /\ lens # {}
                 THEN MatchFrom(rest, Drop(path, off + least),
                                Append(caps, <<name, SubSeq(path, off + 1, off + least)>>))
                 ELSE [ok |-> FALSE, caps |-> caps]
            ELSE IF path # <<>> /\ ToLowerCase(<<path[1]>>) = ToLowerCase(<<pat[1]>>)
                 THEN MatchFrom(Tail(pat), Tail(path), caps)
                 ELSE [ok |-> FALSE, caps |-> caps]

\* the mutant of MatchPath that accepts a path of which only a leading part,
\* up to a "/", matches the pattern (the match app.use makes)
MatchPathPrefix(pattern, path) ==
    LET ends == { n \in 0..Len(path) :
                     /\ n = Len(path) \/ path[n + 1] = "/"
                     /\ MatchFrom(pattern, SubSeq(path, 1, n), <<>>).ok }
    IN IF ends = {} THEN [ok |-> FALSE, caps |-> <<>>]
       ELSE MatchFrom(pattern, SubSeq(path, 1, CHOOSE n \in ends : \A m \in ends : n <= m), <<>>)

\* Layer.match of a route layer: whether the path matches, and the captures
MatchPath(pattern, path) == MatchFrom(pattern, path, <<>>)

\* the percent escapes that occur in the requests of this model
PercentEscapes == { <<"%","2","0">>, <<"%","2","F">> }
EscapeChar(e) == IF e = <<"%","2","0">> THEN " " ELSE "/"

\* decodeURIComponent, as decode_param applies it to a capture; ok is FALSE
\* for a malformed escape, for which Express answers 400
RECURSIVE DecodeURIComponent(_)
DecodeURIComponent(s) ==
    IF s = <<>> THEN [ok |-> TRUE, text |-> <<>>]
    ELSE IF Head(s) # "%"
         THEN LET r == DecodeURIComponent(Tail(s))
              IN [ok |-> r.ok, text |-> <<Head(s)>> \o r.text]
    ELSE IF Len(s) >= 3 /\ SubSeq(s, 1, 3) \in PercentEscapes
         THEN LET r == DecodeURIComponent(Drop(s, 3))
              IN [ok |-> r.ok, text |-> <<EscapeChar(SubSeq(s, 1, 3))>> \o r.text]
    ELSE [ok |-> FALSE, text |-> <<>>]

\* req.params of a matched route: each capture decoded, a later capture of
\* the same name replacing an earlier one
RECURSIVE ParamsOf(_)
ParamsOf(caps) ==
    IF caps = <<>> THEN Obj(<<>>, <<>>)
    ELSE LET last == caps[Len(caps)]
         IN SetProp(ParamsOf(SubSeq(caps, 1, Len(caps) - 1)),
                    last[1], Str(DecodeURIComponent(last[2]).text))

CapturesDecode(caps) == \A i \in 1..Len(caps) : DecodeURIComponent(caps[i][2]).ok

\* Route.prototype._handles_method: a HEAD request is handled by a route
\* that has a GET handler and no HEAD handler (these routes have one handler)
HandlesMethod(routeMethod, reqMethod) ==
    \/ routeMethod = ToLowerCase(reqMethod)
    \/ (ToLowerCase(reqMethod) = <<"h","e","a","d">> /\ routeMethod = <<"g","e","t">>)

\* The nesting of "(" and ")" left after reading s at depth d, -1 once a ")"
\* closes nothing.
RECURSIVE GroupDepth(_, _)
GroupDepth(s, d) ==
    IF d < 0 \/ s = <<>> THEN d
    ELSE GroupDepth(Tail(s), IF Head(s) = "(" THEN d + 1 ELSE IF Head(s) = ")" THEN d - 1 ELSE d)

\* app[method](path, ...) builds the route's regular expression at once:
\* path-to-regexp hands "(" and ")" of the pattern on to new RegExp, which
\* throws a SyntaxError for a group that is not closed or not opened
PatternCompiles(path) == GroupDepth(path, 0) = 0

RouteLayer(method, path, ep) == [kind |-> "route", method |-> method, path |-> path, ep |-> ep]
UseLayer(name) == [kind |-> name, method |-> <<>>, path |-> <<>>, ep |-> 0]

\* the mutant of RegisterRoutes without the test of line 12: every endpoint
\* is registered under its method, whatever it is
RECURSIVE RegisterEveryRoute(_, _)
RegisterEveryRoute(eps, i) ==
    IF i > Len(eps) THEN <<>>
    ELSE <<RouteLayer(ToLowerCase(GetProp(eps[i], K_method).v),
                      GetProp(eps[i], K_fullPath).v, i)>> \o RegisterEveryRoute(eps, i + 1)

\* lines 11-58: the layers the loop registers, one per endpoint whose method
\* is valid, in the order of the list
RECURSIVE RegisterRoutes(_, _)
RegisterRoutes(eps, i) ==
    IF i > Len(eps) THEN <<>>
    ELSE (IF ToUpperCase(GetProp(eps[i], K_method).v) \in ValidMethods
          THEN <<RouteLayer(ToLowerCase(GetProp(eps[i], K_method).v),
                            GetProp(eps[i], K_fullPath).v, i)>>
          ELSE <<>>) \o RegisterRoutes(eps, i + 1)

\* the router stack createServer leaves: express.json(), express.urlencoded(),
\* the routes, app.use("*", ...)
StackOf(eps) ==
    <<UseLayer("json"), UseLayer("urlencoded")>> \o RegisterRoutes(eps, 1) \o <<UseLayer("fallback")>>

\* createServer throws out of its loop when it registers a pattern that does
\* not compile
CreateServerThrows(eps) ==
    \E i \in 1..Len(eps) :
        /\ ToUpperCase(GetProp(eps[i], K_method).v) \in ValidMethods
        /\ ~PatternCompiles(GetProp(eps[i], K_fullPath).v)

\* the mutant of FirstMatch in which a later registration replaces an
\* earlier one: the last matching layer is taken
LastMatch(layers, method, path) ==
    LET hits == { i \in 1..Len(layers) :
                     \/ layers[i].kind = "fallback"
                     \/ /\ layers[i].kind = "route"
                        /\ MatchPath(layers[i].path, path).ok
                        /\ HandlesMethod(layers[i].method, method) }
        routes == { i \in hits : layers[i].kind = "route" }
    IN IF routes # {} THEN CHOOSE i \in routes : \A j \in routes : j <= i
       ELSE CHOOSE i \in hits : TRUE

\* the mutant of FirstMatch that prefers, among the matching routes, the one
\* whose pattern has the fewest parameters
MostSpecificMatch(layers, method, path) ==
    LET hits == { i \in 1..Len(layers) :
                     \/ layers[i].kind = "fallback"
                     \/ /\ layers[i].kind = "route"
                        /\ MatchPath(layers[i].path, path).ok
                        /\ HandlesMethod(layers[i].method, method) }
        colons(i) == Cardinality({ n \in 1..Len(layers[i].path) : layers[i].path[n] = ":" })
        routes == { i \in hits : layers[i].kind = "route" }
        best == { i \in routes : \A j \in routes : colons(i) <= colons(j) }
    IN IF routes # {} THEN CHOOSE i \in best : \A j \in best : i <= j
       ELSE CHOOSE i \in hits : TRUE

\* Router.handle's walk over the stack: the first layer whose path matches
\* and, for a route, whose method handles the request's; no handler of
\* createServer calls next(), so that layer ends the walk
FirstMatch(layers, method, path) ==
    LET hits == { i \in 1..Len(layers) :
                     \/ layers[i].kind = "fallback"
                     \/ /\ layers[i].kind = "route"
                        /\ MatchPath(layers[i].path, path).ok
                        /\ HandlesMethod(layers[i].method, method) }
    IN CHOOSE i \in hits : \A j \in hits : i <= j

K_error == <<"e","r","r","o","r">>
K_message == <<"m","e","s","s","a","g","e">>
NotFoundError == <<"M","o","c","k"," ","e","n","d","p","o","i","n","t"," ","n","o","t"," ","f","o","u","n","d">>
NotFoundMessage == <<"N","o"," ","m","o","c","k"," ","e","n","d","p","o","i","n","t"," ","m","a","t","c","h","e","s"," ","t","h","i","s"," ","r","e","q","u","e","s","t","."," ","C","h","e","c","k"," ","y","o","u","r"," ","Y","A","M","L"," ","f","i","l","e","s",".">>

\* lines 60-74: the handler mounted with app.use("*", ...).  A handler
\* mounted with use sees req.url with the mount path it matched removed: "*"
\* matches the whole path, so req.path is "/" there.
MountedPath(path) == Slash

FallbackResponse(request) ==
    [status |-> 404,
     body |-> Obj(<<K_error, K_path, K_method, K_message>>,
                  <<Str(NotFoundError), Str(MountedPath(request.path)),
                    Str(request.method), Str(NotFoundMessage)>>)]

\* what Express's final handler answers when a middleware or the router
\* passes an error with status 400 (malformed JSON, malformed escape)
BadRequestResponse == [status |-> 400, body |-> Str(<<"B","a","d"," ","R","e","q","u","e","s","t">>)]

\* req.body after express.json(): the parsed payload, {} when there is none
RequestBody(request) ==
    IF request.payload.kind = "json" THEN request.payload.value ELSE Obj(<<>>, <<>>)

\* line 56: res.json writes the head; Node's writeHead takes the status as
\* a 32-bit integer and throws a RangeError unless it is within 100..999
StatusSendable(status) == status >= 100 /\ status <= 999

\* lines 36-56: the rest of the route handler after the delay
RouteResponse(ep, request, params) ==
    [status |-> GetProp(ep, K_status).v,
     body |-> IF TypeOf(GetProp(ep, K_body)) \in {"string", "object"}
              THEN interpolateParams(GetProp(ep, K_body), params, request.query,
                                     RequestBody(request))
              ELSE GetProp(ep, K_body)]

\* line 32: endpoint.delayMs && endpoint.delayMs > 0, for the delays of this
\* model, which are numbers or absent
HasDelay(ep) ==
    /\ Truthy(GetProp(ep, K_delayMs))
    /\ TypeOf(GetProp(ep, K_delayMs)) = "number"
    /\ GetProp(ep, K_delayMs).v > 0

LoaderIdle ==
    /\ mockFiles = {} /\ allFiles = <<>> /\ fileIdx = 0 /\ loaded = <<>> /\ lpc = "idle"

ServerIdle ==
    /\ endpoints = <<>> /\ stack = <<>> /\ spc = "idle" /\ reqs = <<>> /\ now = 0

RenderIdle == rin = <<>> /\ rout = Undef /\ rpc = "idle"

StartIdle == dirExists = TRUE /\ ppc = "idle"

GenIdle == curlInfo = [method |-> <<>>, path |-> <<>>] /\ gpc = "idle"

----------------------------------------------------------------------------
(* The directories the loader is run on *)

MaxFiles == 2

Decl(method, path, status, body) ==
    Obj(<<K_method, K_path, K_status, K_body>>, <<Str(method), Str(path), Num(status), body>>)

DeclDelayed(method, path, status, body, delayMs) ==
    Obj(<<K_method, K_path, K_status, K_body, K_delayMs>>,
        <<Str(method), Str(path), Num(status), body, Num(delayMs)>>)

File(dir, base, ext, content) == [dir |-> dir, base |-> base, ext |-> ext, content |-> content]
Parsed(value) == [kind |-> "parsed", value |-> value]
Unreadable == [kind |-> "unreadable"]     \* readFile throws
Unparseable == [kind |-> "unparseable"]   \* yaml.load throws

F_users ==
    File(<<>>, <<"u","s","e","r","s">>, <<"y","a","m","l">>,
         Parsed(Arr(<< Decl(<<"G","E","T">>, <<"/","u","s","e","r","s">>, 200, Arr(<<Str(<<"a","n","n">>)>>)),
                       DeclDelayed(<<"G","E","T">>, <<"/","u","s","e","r","s","/",":","i","d">>, 200,
                                   Obj(<<K_id>>, <<Str(<<":","i","d">>)>>), 100) >>)))

F_index ==
    File(<<>>, <<"i","n","d","e","x">>, <<"y","a","m","l">>,
         Parsed(Arr(<< Decl(<<"G","E","T">>, <<"/","p","i","n","g">>, 200, Str(<<"p","o","n","g">>)),
                       Decl(<<"G","E","T">>, <<"/","p","i","n","g">>, 201, Str(<<"a","g","a","i","n">>)) >>)))

F_indexYml ==
    File(<<>>, <<"i","n","d","e","x">>, <<"y","m","l">>,
         Parsed(Arr(<< Decl(<<"G","E","T">>, <<"/","/","h","e","a","l","t","h">>, 200, Bool(TRUE)),
                       Decl(<<"G","E","T">>, <<"h","o","m","e">>, 200, Bool(TRUE)) >>)))

F_apiIndex ==
    File(<<<<"a","p","i">>>>, <<"i","n","d","e","x">>, <<"y","a","m","l">>,
         Parsed(Arr(<< Decl(<<"G","E","T">>, <<"/","s","t","a","t","u","s">>, 200, Str(<<"u","p">>)) >>)))

F_products ==
    File(<<<<"a","p","i">>, <<"v","1">>>>, <<"p","r","o","d","u","c","t","s">>, <<"y","a","m","l">>,
         Parsed(Arr(<< Decl(<<"G","E","T">>, <<"/","p","r","o","d","u","c","t","s">>, 200, Arr(<<Num(1)>>)),
                       Decl(<<"G","E","T">>, <<"/","p","r","o","d","u","c","t","s","/",":","i","d">>, 200, Obj(<<K_id>>, <<Str(<<":","i","d">>)>>)) >>)))

F_broken == File(<<>>, <<"b","r","o","k","e","n">>, <<"y","a","m","l">>, Unparseable)

F_locked == File(<<<<"a","p","i">>>>, <<"l","o","c","k","e","d">>, <<"y","m","l">>, Unreadable)

F_notes == File(<<>>, <<"n","o","t","e","s">>, <<"y","m","l">>, Parsed(Obj(<<K_name>>, <<Str(<<"n">>)>>)))

F_mixed ==
    File(<<>>, <<"m","i","x","e","d">>, <<"y","m","l">>,
         Parsed(Arr(<< Obj(<<K_method, K_path, K_body>>, <<Str(<<"G","E","T">>), Str(<<"/","n","o","s","t","a","t","u","s">>), Null>>),
                       Null,
                       Decl(<<"g","e","t">>, <<"/","a","/","/","b">>, 200, Null),
                       Decl(<<"T","R","A","C","E">>, <<"/","t">>, 200, Null),
                       Decl(<<"P","O","S","T">>, <<"i","t","e","m","s">>, 201, Str(<<"{","{","b","o","d","y",".","n","a","m","e","}","}">>)) >>)))

F_hidden ==
    File(<<>>, <<".","s","e","c","r","e","t">>, <<"y","a","m","l">>, Parsed(Arr(<< Decl(<<"G","E","T">>, <<"/","s","e","c","r","e","t">>, 200, Null) >>)))

F_files ==
    File(<<>>, <<"f","i","l","e","s">>, <<"y","m","l">>, Parsed(Arr(<< Decl(<<"G","E","T">>, <<"/","a","(">>, 200, Null) >>)))

\* declarations whose delayMs is a negative number and a text
F_shapes ==
    File(<<>>, <<"s","h","a","p","e","s">>, <<"y","a","m","l">>,
         Parsed(Arr(<< DeclDelayed(<<"G","E","T">>, <<"/","e","a","r","l","y">>, 200, Null, -5),
                       SetProp(Decl(<<"G","E","T">>, <<"/","s","o","o","n">>, 200, Null),
                               K_delayMs, Str(<<"s","o","o","n">>)),
                       DeclDelayed(<<"G","E","T">>, <<"/","l","a","t","e">>, 200, Null, 5) >>)))

FilePool ==
    { F_users, F_index, F_indexYml, F_apiIndex, F_products,
      F_broken, F_locked, F_notes, F_mixed, F_hidden, F_files, F_shapes }

\* the orders in which a glob call may return the files of S
Orders(S) ==
    { o \in [1..Cardinality(S) -> S] : \A i, j \in 1..Cardinality(S) : o[i] = o[j] => i = j }

FileAt(filePath) == CHOOSE f \in mockFiles : AbsPath(f) = filePath

\* the mutant of LoopAfter in which try/catch encloses the whole loop: a file
\* that throws ends the loop
LoopEndsOnThrow(f, idx) ==
    IF f.content.kind # "parsed" THEN Len(allFiles) + 1 ELSE idx + 1

\* where the loop over allFiles goes after the pass for file f: try/catch is
\* inside the loop body (lines 16, 43-45) and `continue` (line 22) goes on, so
\* whatever happened the next file follows
LoopAfter(f, idx) == idx + 1

LoadInit ==
    /\ mockFiles \in { S \in SUBSET FilePool : Cardinality(S) <= MaxFiles }
    /\ allFiles = <<>>
    /\ fileIdx = 0
    /\ loaded = <<>>
    /\ lpc = "glob"
    /\ ServerIdle
    /\ RenderIdle
    /\ StartIdle
    /\ GenIdle

\* lines 9-13: the two glob calls, allFiles = [...yamlFiles, ...ymlFiles],
\* endpoints = []
Glob ==
    /\ lpc = "glob"
    /\ \E yamlFiles \in Orders({ f \in mockFiles : GlobMatches(f, ExtYaml) }),
          ymlFiles \in Orders({ f \in mockFiles : GlobMatches(f, ExtYml) }) :
          allFiles' = [i \in 1..Len(yamlFiles) |-> AbsPath(yamlFiles[i])]
                        \o [i \in 1..Len(ymlFiles) |-> AbsPath(ymlFiles[i])]
    /\ fileIdx' = 1
    /\ loaded' = <<>>
    /\ lpc' = "loop"
    /\ UNCHANGED <<mockFiles, serverVars, renderVars, startVars, genVars>>

\* lines 15-46: one pass of the loop over allFiles
LoadFile ==
    /\ lpc = "loop"
    /\ fileIdx <= Len(allFiles)
    /\ loaded' = loaded \o FileEndpoints(FileAt(allFiles[fileIdx]))
    /\ fileIdx' = LoopAfter(FileAt(allFiles[fileIdx]), fileIdx)
    /\ UNCHANGED <<mockFiles, allFiles, lpc, serverVars, renderVars, startVars, genVars>>

\* line 48: return endpoints
LoadReturn ==
    /\ lpc = "loop"
    /\ fileIdx > Len(allFiles)
    /\ lpc' = "done"
    /\ UNCHANGED <<mockFiles, allFiles, fileIdx, loaded, serverVars, renderVars, startVars, genVars>>

LoadNext == Glob \/ LoadFile \/ LoadReturn

SpecLoad == LoadInit /\ [][LoadNext]_vars

----------------------------------------------------------------------------
(* The process: startServer (src/cli/run.ts:7-47) *)

StartInit ==
    /\ dirExists \in BOOLEAN
    /\ mockFiles \in (IF dirExists
                      THEN { S \in SUBSET FilePool : Cardinality(S) <= MaxFiles }
                      ELSE {{}})
    /\ allFiles = <<>> /\ fileIdx = 0 /\ loaded = <<>> /\ lpc = "idle"
    /\ ServerIdle
    /\ RenderIdle
    /\ GenIdle
    /\ ppc = "check"

\* lines 10-18: existsSync(mockDir); without the directory process.exit(1),
\* with it the call of loadMockEndpoints
CheckDir ==
    /\ ppc = "check"
    /\ IF dirExists
       THEN ppc' = "load" /\ lpc' = "glob"
       ELSE ppc' = "exited" /\ lpc' = lpc
    /\ UNCHANGED <<dirExists, mockFiles, allFiles, fileIdx, loaded, serverVars, renderVars, genVars>>

\* lines 18-46, once loadMockEndpoints has returned: the report of the number
\* of endpoints, createServer(endpoints) and app.listen; an exception lands
\* in the catch block, which calls process.exit(1)
StartServe ==
    /\ ppc = "load"
    /\ lpc = "done"
    /\ endpoints' = loaded
    /\ IF CreateServerThrows(loaded)
       THEN stack' = <<>> /\ spc' = "failed" /\ ppc' = "exited"
       ELSE stack' = StackOf(loaded) /\ spc' = "serving" /\ ppc' = "listening"
    /\ UNCHANGED <<dirExists, reqs, now, loaderVars, renderVars, genVars>>

StartNext == CheckDir \/ Glob \/ LoadFile \/ LoadReturn \/ StartServe

SpecStart == StartInit /\ [][StartNext]_vars

----------------------------------------------------------------------------
(* The server: createServer and the requests it serves *)

MaxRequests == 2
MaxTime == 2

\* the endpoints of the files in the order given: what loadMockEndpoints
\* returns when allFiles lists them so
RECURSIVE LoadedFrom(_)
LoadedFrom(files) ==
    IF files = <<>> THEN <<>> ELSE FileEndpoints(Head(files)) \o LoadedFrom(Tail(files))

G_index ==
    File(<<>>, <<"i","n","d","e","x">>, <<"y","a","m","l">>,
         Parsed(Arr(<< Decl(<<"G","E","T">>, <<"/","p","i","n","g">>, 200, Str(<<"o","n","e">>)),
                       Decl(<<"G","E","T">>, <<"/","p","i","n","g">>, 201, Str(<<"t","w","o">>)),
                       DeclDelayed(<<"G","E","T">>, <<"/","s","l","o","w">>, 200, Str(<<"s","l","o","w"," ","{","{","q","u","e","r","y",".","q","}","}">>), 2),
                       Decl(<<"g","e","t">>, <<"/","f","a","s","t">>, 200, Num(1)),
                       Decl(<<"G","E","T">>, <<"/","o","d","d">>, 99, Str(<<"o","d","d">>)) >>)))

G_indexYml ==
    File(<<>>, <<"i","n","d","e","x">>, <<"y","m","l">>, Parsed(Arr(<< Decl(<<"G","E","T">>, <<"/","p","i","n","g">>, 202, Str(<<"y","m","l">>)) >>)))

G_users ==
    File(<<>>, <<"u","s","e","r","s">>, <<"y","a","m","l">>,
         Parsed(Arr(<< DeclDelayed(<<"G","E","T">>, <<"/","m","e">>, 203, Str(<<"m","e">>), 2),
                       DeclDelayed(<<"G","E","T">>, <<"/",":","i","d">>, 200,
                                   Obj(<<K_id, K_q>>, <<Str(<<"U","s","e","r"," ",":","i","d">>), Str(<<"{","{","q","u","e","r","y",".","q","}","}">>)>>), 1),
                       Decl(<<"P","O","S","T">>, <<"/">>, 201, Str(<<"{","{","b","o","d","y",".","n","a","m","e","}","}">>)),
                       Decl(<<"G","E","T">>, <<"/",":","i","d","/",":","t","a","b">>, 200, Str(<<"t","a","b"," ",":","t","a","b">>)),
                       Decl(<<"G","E","T">>, <<"/",":","i","d","/","e","x","t","r","a">>, 204, Str(<<"e","x","t","r","a">>)) >>)))

\* an entry the loader would have rejected: its method is none of the five
E_trace ==
    ParsedEndpoint(Decl(<<"T","R","A","C","E">>, <<"/","m","e">>, 200, Str(<<"t","r","a","c","e">>)),
                   AbsPath(G_users), <<"/","u","s","e","r","s">>)

\* the list eps with entry e put after its first n entries
WithEntry(eps, n, e) == SubSeq(eps, 1, n) \o <<e>> \o SubSeq(eps, n + 1, Len(eps))

\* the lists createServer is given: what the loader returns for two
\* directories, the second with a malformed entry put in by the caller
ServerInputs ==
    { LoadedFrom(<<G_index, G_indexYml>>),
      WithEntry(LoadedFrom(<<G_users>>), 1, E_trace) }

NoPayload == [kind |-> "none"]
Json(value) == [kind |-> "json", value |-> value]
Malformed == [kind |-> "malformed"]   \* Content-Type: application/json, body not JSON

Request(method, path, query, payload) ==
    [method |-> method, path |-> path, query |-> query, payload |-> payload]

NoQuery == Obj(<<>>, <<>>)
QueryQ == Obj(<<K_q>>, <<Str(<<"x">>)>>)

\* the requests clients send to the server of the first list
RequestsToIndex ==
    { Request(<<"G","E","T">>, <<"/","p","i","n","g">>, NoQuery, NoPayload),
      Request(<<"G","E","T">>, <<"/","P","I","N","G","/">>, NoQuery, NoPayload),
      Request(<<"P","O","S","T">>, <<"/","p","i","n","g">>, NoQuery, NoPayload),
      Request(<<"H","E","A","D">>, <<"/","p","i","n","g">>, NoQuery, NoPayload),
      Request(<<"G","E","T">>, <<"/","n","o","n","e","x","i","s","t","e","n","t">>, NoQuery, NoPayload),
      Request(<<"G","E","T">>, <<"/","s","l","o","w">>, QueryQ, NoPayload),
      Request(<<"G","E","T">>, <<"/","f","a","s","t">>, NoQuery, NoPayload),
      Request(<<"G","E","T">>, <<"/","o","d","d">>, NoQuery, NoPayload) }

\* the requests clients send to the server of the second list
RequestsToUsers ==
    { Request(<<"G","E","T">>, <<"/","u","s","e","r","s","/","4","2">>, QueryQ, NoPayload),
      Request(<<"G","E","T">>, <<"/","u","s","e","r","s","/","m","e">>, NoQuery, NoPayload),
      Request(<<"G","E","T">>, <<"/","u","s","e","r","s">>, NoQuery, NoPayload),
      Request(<<"G","E","T">>, <<"/","u","s","e","r","s","/","4","2","/","e","x","t","r","a">>, NoQuery, NoPayload),
      Request(<<"G","E","T">>, <<"/","u","s","e","r","s","/","a","%","2","0","b">>, NoQuery, NoPayload),
      Request(<<"G","E","T">>, <<"/","u","s","e","r","s","/","%","z","z">>, NoQuery, NoPayload),
      Request(<<"P","O","S","T">>, <<"/","u","s","e","r","s","/">>, NoQuery, Json(Obj(<<K_name>>, <<Str(<<"A","n","n">>)>>))),
      Request(<<"P","O","S","T">>, <<"/","u","s","e","r","s">>, NoQuery, Malformed),
      Request(<<"T","R","A","C","E">>, <<"/","u","s","e","r","s","/","m","e">>, NoQuery, NoPayload) }

\* the requests clients send to a server created from eps: to its routes and
\* beside them; to a server run on a generated mock, the request of the cURL
\* command the mock was generated from
Requests(eps) ==
    IF gpc # "idle" THEN { Request(curlInfo.method, curlInfo.path, NoQuery, NoPayload) }
    ELSE IF GetProp(eps[1], K_filePath).v = AbsPath(G_index) THEN RequestsToIndex
    ELSE RequestsToUsers

ServerInit ==
    /\ endpoints \in ServerInputs
    /\ stack = <<>>
    /\ spc = "create"
    /\ reqs = <<>>
    /\ now = 0
    /\ LoaderIdle
    /\ RenderIdle
    /\ StartIdle
    /\ GenIdle

\* createServer(endpoints), lines 5-77
CreateServer ==
    /\ spc = "create"
    /\ stack' = IF CreateServerThrows(endpoints) THEN <<>> ELSE StackOf(endpoints)
    /\ spc' = IF CreateServerThrows(endpoints) THEN "failed" ELSE "serving"
    /\ UNCHANGED <<endpoints, reqs, now, loaderVars, renderVars, startVars, genVars>>

\* the mutant of Running in which the delay is a busy wait: the handler of a
\* delayed request keeps the thread until its delay is over
RunningBusyWait == { i \in 1..Len(reqs) : reqs[i].state = "delay" }

\* The requests whose handler occupies the single JavaScript thread between
\* two steps.  A handler runs until it returns or reaches its await (line
\* 33), which hands the thread back: none does.
Running == { i \in 1..Len(reqs) : reqs[i].state = "running" }

\* the mutant of Respond in which the parameter bags are kept in one place
\* for all requests: a handler that resumes after its delay renders with the
\* values of the request that arrived last
RespondShared(rec) ==
    LET last == IF rec.state = "delay" THEN reqs[Len(reqs)] ELSE rec
    IN IF StatusSendable(GetProp(endpoints[rec.ep], K_status).v)
       THEN [rec EXCEPT !.state = "sent", !.sentAt = now,
                        !.response = RouteResponse(endpoints[rec.ep], last.request, last.params)]
       ELSE [rec EXCEPT !.state = "thrown", !.sentAt = now,
                        !.response = [status |-> 0, body |-> Undef]]

\* lines 36-56 for the request recorded in rec: the response is rendered and
\* sent, or res.json throws inside the async handler and nothing is sent
Respond(rec) ==
    IF StatusSendable(GetProp(endpoints[rec.ep], K_status).v)
    THEN [rec EXCEPT !.state = "sent", !.sentAt = now,
                     !.response = RouteResponse(endpoints[rec.ep], rec.request, rec.params)]
    ELSE [rec EXCEPT !.state = "thrown", !.sentAt = now,
                     !.response = [status |-> 0, body |-> Undef]]

\* The promise of an async handler that threw is rejected and nobody handles
\* it: Node (>= 18, package.json) ends the process on an unhandled rejection.
AfterHandler(rec) == IF rec.state = "thrown" THEN "crashed" ELSE "serving"

\* the outcome of the walk over the stack for a request arriving at `now`
Dispatch(request) ==
    LET hit == stack[FirstMatch(stack, request.method, request.path)]
        caps == MatchPath(hit.path, request.path).caps
        base == [request |-> request, at |-> now, ep |-> 0, params |-> Obj(<<>>, <<>>),
                 due |-> now, state |-> "sent", sentAt |-> now,
                 response |-> BadRequestResponse]
    IN IF request.payload.kind = "malformed" THEN base      \* express.json() fails
       ELSE IF hit.kind = "fallback"
            THEN [base EXCEPT !.response = FallbackResponse(request)]
       ELSE IF ~CapturesDecode(caps) THEN base              \* decode_param fails
       ELSE IF HasDelay(endpoints[hit.ep])
            THEN [base EXCEPT !.ep = hit.ep, !.params = ParamsOf(caps), !.state = "delay",
                              !.due = now + GetProp(endpoints[hit.ep], K_delayMs).v,
                              !.response = [status |-> 0, body |-> Undef]]
       ELSE Respond([base EXCEPT !.ep = hit.ep, !.params = ParamsOf(caps)])

\* the thread is free for a further request
CanReceive == spc = "serving" /\ Running = {} /\ Len(reqs) < MaxRequests

\* the thread is free for the handler of request i, whose timer is due
CanResume(i) ==
    spc = "serving" /\ Running \ {i} = {} /\ reqs[i].state = "delay" /\ now >= reqs[i].due

\* a request arrives: Express walks the stack and runs the handler it finds,
\* up to its response or its await
Receive ==
    /\ CanReceive
    /\ \E request \in Requests(endpoints) :
          /\ reqs' = Append(reqs, Dispatch(request))
          /\ spc' = AfterHandler(Dispatch(request))
    /\ UNCHANGED <<endpoints, stack, now, loaderVars, renderVars, startVars, genVars>>

\* the timer of line 33 fires, not before its delay: the handler of request i
\* resumes, renders and responds
TimerFire(i) ==
    /\ CanResume(i)
    /\ reqs' = [reqs EXCEPT ![i] = Respond(reqs[i])]
    /\ spc' = AfterHandler(Respond(reqs[i]))
    /\ UNCHANGED <<endpoints, stack, now, loaderVars, renderVars, startVars, genVars>>

\* a millisecond passes
Tick ==
    /\ spc = "serving"
    /\ now < MaxTime
    /\ now' = now + 1
    /\ UNCHANGED <<endpoints, stack, spc, reqs, loaderVars, renderVars, startVars, genVars>>

Next == CreateServer \/ Receive \/ (\E i \in 1..Len(reqs) : TimerFire(i)) \/ Tick

Spec == ServerInit /\ [][Next]_vars

----------------------------------------------------------------------------
(* The generator: generateMockFromCurl (src/cli/generate.ts) and the run of  *)
(* the server on the directory it wrote into                                *)

\* getDefaultStatusCode(method)
getDefaultStatusCode(method) == IF method = <<"P","O","S","T">> THEN 201 ELSE 200

\* urlPath.replace(/^\//, '').replace(/\/$/, '')
TrimSlashes(urlPath) ==
    LET cut == IF StartsWith(urlPath, Slash) THEN Tail(urlPath) ELSE urlPath
    IN IF EndsWith(cut, Slash) THEN SubSeq(cut, 1, Len(cut) - 1) ELSE cut

\* filePath.replace(/\/:\w+/g, '')
RECURSIVE DropColonSegments(_)
DropColonSegments(s) ==
    IF s = <<>> THEN <<>>
    ELSE IF StartsWith(s, <<"/",":">>) /\ WordRun(Drop(s, 2)) # <<>>
    THEN DropColonSegments(Drop(s, 2 + Len(WordRun(Drop(s, 2)))))
    ELSE <<Head(s)>> \o DropColonSegments(Tail(s))

\* filePath.replace(/\/\{\w+\}/g, '')
RECURSIVE DropBraceSegments(_)
DropBraceSegments(s) ==
    IF s = <<>> THEN <<>>
    ELSE LET name == WordRun(Drop(s, 2))
         IN IF /\ StartsWith(s, <<"/","{">>)
               /\ name # <<>>
               /\ StartsWith(Drop(s, 2 + Len(name)), <<"}">>)
            THEN DropBraceSegments(Drop(s, 3 + Len(name)))
            ELSE <<Head(s)>> \o DropBraceSegments(Tail(s))

\* filePath.split('/')
RECURSIVE SplitPath(_)
SplitPath(s) ==
    IF ~Contains(s, Slash) THEN <<s>>
    ELSE LET cut == CHOOSE i \in 1..Len(s) : s[i] = "/" /\ \A j \in 1..(i-1) : s[j] # "/"
         IN <<SubSeq(s, 1, cut - 1)>> \o SplitPath(Drop(s, cut))

\* lines 582-600 of generateFilePath: the directory below the output directory
\* (path.join leaves out its empty names) and the name of the file
GeneratedName(info) ==
    LET stripped == DropBraceSegments(DropColonSegments(TrimSlashes(info.path)))
        filePath == IF stripped = <<>> THEN <<"i","n","d","e","x">> ELSE stripped
        pathParts == SplitPath(filePath)
        last == pathParts[Len(pathParts)]
    IN [dir |-> SelectSeq(SubSeq(pathParts, 1, Len(pathParts) - 1), LAMBDA part : part # <<>>),
        base |-> IF last = <<>> THEN <<"i","n","d","e","x">> ELSE last]

\* the file generateFilePath names, with the given content
GeneratedFile(info, content) ==
    File(GeneratedName(info).dir, GeneratedName(info).base, <<"y","a","m","l">>, content)

\* generateFilePath(curlInfo, outputDir), the output directory being the root
\* the server is run on
generateFilePath(info) == AbsPath(GeneratedFile(info, Unreadable))

\* the plain scalars js-yaml reads as something other than a text: yaml.dump
\* writes a text in quotes when it is one of them
YamlNullTexts == { <<"n","u","l","l">>, <<"N","u","l","l">>, <<"N","U","L","L">>, <<"~">>, <<>> }
YamlTrueTexts == { <<"t","r","u","e">>, <<"T","r","u","e">>, <<"T","R","U","E">> }
YamlFalseTexts == { <<"f","a","l","s","e">>, <<"F","a","l","s","e">>, <<"F","A","L","S","E">> }
IsYamlInteger(s) ==
    LET digits == IF s # <<>> /\ Head(s) = "-" THEN Tail(s) ELSE s
    IN digits # <<>> /\ \A i \in 1..Len(digits) : digits[i] \in Digits

YamlAmbiguous(s) ==
    s \in YamlNullTexts \cup YamlTrueTexts \cup YamlFalseTexts \/ IsYamlInteger(s)

\* yaml.dump(value): the document as a tree of nodes
RECURSIVE YamlDump(_)
YamlDump(x) ==
    CASE x.t = "string" -> [node |-> "scalar", quoted |-> YamlAmbiguous(x.v), text |-> x.v]
      [] x.t = "number" ->
           [node |-> "scalar", quoted |-> FALSE,
            text |-> IF x.v < 0 THEN <<"-">> \o NatToString(0 - x.v) ELSE NatToString(x.v)]
      [] x.t = "boolean" ->
           [node |-> "scalar", quoted |-> FALSE,
            text |-> IF x.v THEN <<"t","r","u","e">> ELSE <<"f","a","l","s","e">>]
      [] x.t = "null" -> [node |-> "scalar", quoted |-> FALSE, text |-> <<"n","u","l","l">>]
      [] x.t = "array" ->
           [node |-> "sequence", items |-> [i \in 1..Len(x.v) |-> YamlDump(x.v[i])]]
      [] x.t = "object" ->
           [node |-> "mapping", keys |-> x.k,
            items |-> [i \in 1..Len(x.v) |-> YamlDump(x.v[i])]]

\* yaml.load(document)
RECURSIVE YamlLoad(_)
YamlLoad(n) ==
    CASE n.node = "sequence" -> Arr([i \in 1..Len(n.items) |-> YamlLoad(n.items[i])])
      [] n.node = "mapping" -> Obj(n.keys, [i \in 1..Len(n.items) |-> YamlLoad(n.items[i])])
      [] n.node = "scalar" ->
           IF n.quoted THEN Str(n.text)
           ELSE IF n.text \in YamlNullTexts THEN Null
           ELSE IF n.text \in YamlTrueTexts THEN Bool(TRUE)
           ELSE IF n.text \in YamlFalseTexts THEN Bool(FALSE)
           ELSE IF IsYamlInteger(n.text)
                THEN (IF Head(n.text) = "-" THEN Num(0 - DigitsToNat(Tail(n.text)))
                      ELSE Num(DigitsToNat(n.text)))
           ELSE Str(n.text)

\* lines 611-621 of writeYamlFile: the entries of the file already at
\* filePath, none when there is no such file or it holds no sequence
ExistingEndpoints(filePath) ==
    LET there == { f \in mockFiles : AbsPath(f) = filePath }
        f == CHOOSE f \in there : TRUE
    IN IF there # {} /\ f.content.kind = "parsed" /\ f.content.value.t = "array"
       THEN f.content.value.v
       ELSE <<>>

\* lines 623-637: the new endpoint replaces the first entry with its method
\* and path, or goes last
MergeEndpoint(existing, newEndpoint) ==
    LET same == { i \in 1..Len(existing) :
                     /\ GetProp(existing[i], K_method) = GetProp(newEndpoint, K_method)
                     /\ GetProp(existing[i], K_path) = GetProp(newEndpoint, K_path) }
    IN IF same # {}
       THEN [existing EXCEPT ![CHOOSE i \in same : \A j \in same : i <= j] = newEndpoint]
       ELSE Append(existing, newEndpoint)

\* writeYamlFile(filePath, [mockEndpoint]): the directory afterwards.  The
\* file's content is what yaml.load reads from the text yaml.dump wrote.
writeYamlFile(info, mockEndpoint) ==
    LET filePath == generateFilePath(info)
        merged == MergeEndpoint(ExistingEndpoints(filePath), mockEndpoint)
    IN { f \in mockFiles : AbsPath(f) # filePath }
         \cup { GeneratedFile(info, Parsed(YamlLoad(YamlDump(Arr(merged))))) }

\* the requests the cURL commands make, as parseCurlCommand returns them: the
\* method in upper case, the path the pathname of the URL
CurlMethods == { <<"G","E","T">>, <<"P","O","S","T">>, <<"O","P","T","I","O","N","S">> }
CurlPaths ==
    { <<"/">>, <<"/","i","n","d","e","x">>, <<"/","u","s","e","r","s">>,
      <<"/","u","s","e","r","s","/","4","2">>, <<"/","u","s","e","r","s","/",":","i","d">>,
      <<"/","p","i","n","g">>, <<"/","a","p","i","/","s","t","a","t","u","s","/">> }
CurlInfos == [method : CurlMethods, path : CurlPaths]

\* the responses the mock is given: the one the command returned, parsed as
\* JSON when it is JSON, or the one the generator infers
MockResponses == { Str(<<"1","2","3">>), Obj(<<K_id>>, <<Str(<<":","i","d">>)>>) }

\* Math.floor(Math.random() * 200) + 50
GeneratedDelays == { 50, 249 }

\* the output directory before the command: absent, empty or holding files
OutputDirs == { {}, {F_users}, {F_index}, {F_apiIndex} }

GenInit ==
    /\ curlInfo \in CurlInfos
    /\ gpc = "generate"
    /\ dirExists \in BOOLEAN
    /\ mockFiles \in (IF dirExists THEN OutputDirs ELSE {{}})
    /\ allFiles = <<>> /\ fileIdx = 0 /\ loaded = <<>> /\ lpc = "idle"
    /\ ServerIdle
    /\ RenderIdle
    /\ ppc = "idle"

\* generateMockFromCurl after parseCurlCommand: the mock endpoint, the output
\* directory made if it is missing, the file written
GenerateMock ==
    /\ gpc = "generate"
    /\ \E mockResponse \in MockResponses, delayMs \in GeneratedDelays :
          mockFiles' = writeYamlFile(curlInfo,
                                     DeclDelayed(curlInfo.method, curlInfo.path,
                                                 getDefaultStatusCode(curlInfo.method),
                                                 mockResponse, delayMs))
    /\ dirExists' = TRUE
    /\ gpc' = "written"
    /\ UNCHANGED <<allFiles, fileIdx, loaded, lpc, serverVars, renderVars, ppc, curlInfo>>

\* the command `run` on the output directory: startServer is called
RunCommand ==
    /\ gpc = "written"
    /\ ppc = "idle"
    /\ ppc' = "check"
    /\ UNCHANGED <<dirExists, loaderVars, serverVars, renderVars, genVars>>

\* the time passes until the timer of request i is due
DelayElapses(i) ==
    /\ spc = "serving"
    /\ reqs[i].state = "delay"
    /\ now < reqs[i].due
    /\ \A j \in 1..Len(reqs) : reqs[j].state = "delay" => reqs[i].due <= reqs[j].due
    /\ now' = reqs[i].due
    /\ UNCHANGED <<endpoints, stack, spc, reqs, loaderVars, renderVars, startVars, genVars>>

GenNext ==
    \/ GenerateMock
    \/ RunCommand
    \/ CheckDir
    \/ Glob
    \/ LoadFile
    \/ LoadReturn
    \/ StartServe
    \/ Receive
    \/ \E i \in 1..Len(reqs) : DelayElapses(i)
    \/ \E i \in 1..Len(reqs) : TimerFire(i)

SpecGenerate == GenInit /\ [][GenNext]_vars

----------------------------------------------------------------------------
(* Rendering as a pure function: the arguments are drawn in RenderInit and   *)
(* Interpolate applies interpolateParams to them.                            *)

\* A string leaf is written as a sequence of parts: literal text and
\* placeholders.  PartText is the text of a part as the author types it.
Lit(text) == [kind |-> "lit", text |-> text]
PathPh(name) == [kind |-> "path", name |-> name]
QueryPh(name) == [kind |-> "query", name |-> name]
BodyPh(name) == [kind |-> "body", name |-> name]

PartText(p) ==
    CASE p.kind = "lit" -> p.text
      [] p.kind = "path" -> <<":">> \o p.name
      [] p.kind = "query" -> OpenQuery \o p.name \o CloseBraces
      [] p.kind = "body" -> OpenBody \o p.name \o CloseBraces

RECURSIVE PartsText(_)
PartsText(parts) == IF parts = <<>> THEN <<>> ELSE PartText(Head(parts)) \o PartsText(Tail(parts))

T_User == <<"U","s","e","r"," ">>
T_at == <<"@","x",".","i","o">>

\* the string leaves of the declared bodies
LeafParts ==
    { <<PathPh(K_id)>>,
      <<Lit(T_User), PathPh(K_id)>>,
      <<Lit(T_User), PathPh(K_id), Lit(T_at)>>,
      <<PathPh(K_id), Lit(<<" ">>), PathPh(K_id)>>,
      <<QueryPh(K_q)>>,
      <<Lit(T_User), QueryPh(K_q), Lit(<<"!">>)>>,
      <<BodyPh(K_name)>>,
      <<BodyPh(K_email)>>,
      <<BodyPh(K_count)>>,
      <<Lit(<<"=">>), BodyPh(K_ok)>>,
      <<PathPh(K_id), Lit(<<"/">>), QueryPh(K_q), Lit(<<"/">>), BodyPh(K_name)>>,
      <<BodyPh(ConstructorKey)>>,
      <<Lit(T_User)>> }

\* where the leaf sits in the declared body
Wraps == {"bare", "mapping", "sequence", "nested", "proto"}

Wrap(w, leaf) ==
    CASE w = "bare" -> leaf
      [] w = "mapping" -> Obj(<<K_id, K_count>>, <<leaf, Num(7)>>)
      [] w = "sequence" -> Arr(<<Bool(TRUE), leaf, leaf>>)
      [] w = "nested" -> Obj(<<K_name>>, <<Arr(<<Obj(<<K_q>>, <<leaf>>), Null>>)>>)
      \* js-yaml stores the key __proto__ of a mapping as an own property
      [] w = "proto" -> Obj(<<ProtoKey, K_count>>, <<leaf, Num(7)>>)

\* req.params: the path parameters Express bound (never empty text)
ParamBags ==
    { Obj(<<>>, <<>>),
      Obj(<<K_id>>, <<Str(<<"4","2">>)>>),
      Obj(<<K_id>>, <<Str(OpenQuery \o K_q \o CloseBraces)>>),     \* /users/%7B%7Bquery.q%7D%7D
      Obj(<<K_id>>, <<Str(OpenBody \o K_name \o CloseBraces)>>) }

\* req.query: ?q=x, ?q= and no query string
QueryBags ==
    { Obj(<<>>, <<>>), Obj(<<K_q>>, <<Str(<<"x">>)>>), Obj(<<K_q>>, <<Str(<<>>)>>),
      Obj(<<K_q>>, <<Str(OpenBody \o K_name \o CloseBraces)>>),    \* ?q={{body.name}}
      Obj(<<K_q>>, <<Str(<<":">> \o K_id)>>) }                       \* ?q=:id

\* req.body: the parsed JSON payload, {} when there is none
BodyBags ==
    { Obj(<<>>, <<>>),
      Obj(<<K_name>>, <<Str(<<"A","n","n">>)>>),
      Obj(<<K_name>>, <<Str(<<":">> \o K_id)>>),
      Obj(<<K_name, K_count>>, <<Str(<<>>), Num(0)>>),
      Obj(<<K_count, K_ok>>, <<Num(12), Bool(FALSE)>>),
      Obj(<<K_ok, K_email>>, <<Bool(TRUE), Str(<<"a","@","b">>)>>) }

RenderInit ==
    /\ LoaderIdle
    /\ ServerIdle
    /\ StartIdle
    /\ GenIdle
    /\ rin \in [parts : LeafParts, wrap : Wraps,
                params : ParamBags, query : QueryBags, body : BodyBags]
    /\ rout = Undef
    /\ rpc = "call"

\* the call interpolateParams(responseBody, req.params, req.query, req.body)
Interpolate ==
    /\ rpc = "call"
    /\ rout' = interpolateParams(Wrap(rin.wrap, Str(PartsText(rin.parts))),
                                 rin.params, rin.query, rin.body)
    /\ rpc' = "returned"
    /\ UNCHANGED <<rin, loaderVars, serverVars, startVars, genVars>>

RenderNext == Interpolate

SpecRender == RenderInit /\ [][RenderNext]_vars

----------------------------------------------------------------------------
(* Claims about the loader (checked under SpecLoad) *)

LoadedEndpoints == { loaded[i] : i \in 1..Len(loaded) }

FullPath(e) == GetProp(e, K_fullPath).v
DeclaredPath(e) == GetProp(e, K_path).v
\* the file a resolved endpoint was declared in
SourceFile(e) == FileAt(GetProp(e, K_filePath).v)

\* s with every run of consecutive "/" reduced to one "/": the characters of
\* s that are not a "/" directly after a "/"
Squeezed(s) ==
    LET keep == { i \in 1..Len(s) : ~(s[i] = "/" /\ i > 1 /\ s[i-1] = "/") }
        nth(j) == CHOOSE i \in keep : Cardinality({ k \in keep : k <= i }) = j
    IN [j \in 1..Cardinality(keep) |-> s[nth(j)]]

IndexName == <<"i","n","d","e","x">>
AtRoot(f) == f.dir = <<>>
IsRootIndex(f) == AtRoot(f) /\ f.base = IndexName

\* the file's path relative to the root, without its extension
RelativeName(f) == JoinSegments(f.dir) \o f.base

\* C7 as stated: a file directly in the root contributes an empty prefix,
\* users.yaml just as index.yaml, so the fullPath of each of its declarations
\* is the declared path.
C7_RootFilePrefixEmpty ==
    \A e \in LoadedEndpoints : AtRoot(SourceFile(e)) => FullPath(e) = Squeezed(DeclaredPath(e))

\* C7 amended: of the files directly in the root only index.yaml and
\* index.yml contribute an empty prefix; any other root file contributes
\* "/" + its name without the extension (users.yaml: /users).
C7_RootFilePrefixIsItsName ==
    \A e \in LoadedEndpoints :
        AtRoot(SourceFile(e)) =>
            FullPath(e) = Squeezed((IF SourceFile(e).base = IndexName
                                    THEN <<>>
                                    ELSE Slash \o SourceFile(e).base) \o DeclaredPath(e))

C7_Witness ==
    /\ lpc = "done"
    /\ \E e \in LoadedEndpoints :
          SourceFile(e) = F_users /\ DeclaredPath(e) = <<"/","u","s","e","r","s">> /\ FullPath(e) = <<"/","u","s","e","r","s","/","u","s","e","r","s">>
    /\ \E e \in LoadedEndpoints :
          IsRootIndex(SourceFile(e)) /\ FullPath(e) = DeclaredPath(e)

\* C8: the declarations /products and /products/:id of api/v1/products.yaml
\* are served at GET /api/v1/products and GET /api/v1/products/:id (README,
\* "Nested API Structure"): the route does not repeat the file's name.
C8_ReadmeNestedExample ==
    (lpc = "done" /\ F_products \in mockFiles) =>
        /\ \E e \in LoadedEndpoints :
              /\ SourceFile(e) = F_products
              /\ DeclaredPath(e) = <<"/","p","r","o","d","u","c","t","s">>
              /\ FullPath(e) = <<"/","a","p","i","/","v","1","/","p","r","o","d","u","c","t","s">>
              /\ MatchPath(FullPath(e), <<"/","a","p","i","/","v","1","/","p","r","o","d","u","c","t","s">>).ok
        /\ \E e \in LoadedEndpoints :
              /\ SourceFile(e) = F_products
              /\ DeclaredPath(e) = <<"/","p","r","o","d","u","c","t","s","/",":","i","d">>
              /\ FullPath(e) = <<"/","a","p","i","/","v","1","/","p","r","o","d","u","c","t","s","/",":","i","d">>
              /\ MatchPath(FullPath(e), <<"/","a","p","i","/","v","1","/","p","r","o","d","u","c","t","s","/","7">>).ok

\* C9: an index file in any directory contributes its routes under that
\* directory's own prefix (api/index.yaml: /api), never under .../index.
C9_IndexFileAtAnyLevel ==
    \A e \in LoadedEndpoints :
        SourceFile(e).base = IndexName =>
            FullPath(e) = Squeezed(Slash \o JoinSegments(SourceFile(e).dir) \o DeclaredPath(e))

Enumerated == { f \in mockFiles : \E p \in 1..Len(allFiles) : allFiles[p] = AbsPath(f) }

HoldsSequence(f) == f.content.kind = "parsed" /\ f.content.value.t = "array"

DeclaresKey(d, key) == d.t = "object" /\ \E n \in 1..Len(d.k) : d.k[n] = key

\* what the definition format asks of a declaration: a mapping with a method
\* that is one of the five names in some letter case, a path, a status and a
\* body
ValidDeclaration(d) ==
    /\ DeclaresKey(d, K_method) /\ DeclaresKey(d, K_path)
    /\ DeclaresKey(d, K_status) /\ DeclaresKey(d, K_body)
    /\ GetProp(d, K_method).t = "string"
    /\ \E m \in ValidMethods : ToLowerCase(m) = ToLowerCase(GetProp(d, K_method).v)
    /\ GetProp(d, K_path).t = "string"
    /\ GetProp(d, K_status).t = "number"

ValidDeclarationsOf(f) ==
    IF HoldsSequence(f) THEN SelectSeq(f.content.value.v, ValidDeclaration) ELSE <<>>

IsFrom(f, e) == GetProp(e, K_filePath).v = AbsPath(f)

\* the resolved endpoints of file f, in output order
EndpointsOf(f) == SelectSeq(loaded, LAMBDA e : IsFrom(f, e))

\* resolved endpoint e carries every field of declaration d
CarriesFields(e, d) ==
    \A n \in 1..Len(d.k) : d.k[n] \notin {K_filePath, K_fullPath} => GetProp(e, d.k[n]) = d.v[n]

\* C11: when loading is done, each enumerated file whose content is a
\* sequence has exactly one resolved endpoint per valid declaration, in
\* order and carrying its fields, and none for an invalid one: invalid
\* siblings remove nothing and declarations resolving to the same method and
\* fullPath are all kept.
C11_OneEndpointPerValidDeclaration ==
    lpc = "done" =>
        \A f \in Enumerated :
            HoldsSequence(f) =>
                /\ Len(EndpointsOf(f)) = Len(ValidDeclarationsOf(f))
                /\ \A n \in 1..Len(ValidDeclarationsOf(f)) :
                       CarriesFields(EndpointsOf(f)[n], ValidDeclarationsOf(f)[n])

\* a file with valid declarations after invalid ones and a file declaring
\* the same route twice have been loaded
C11_Witness ==
    /\ lpc = "done"
    /\ \E f \in Enumerated :
          /\ HoldsSequence(f)
          /\ \E n, m \in 1..Len(f.content.value.v) :
                /\ n < m
                /\ ~ValidDeclaration(f.content.value.v[n])
                /\ ValidDeclaration(f.content.value.v[m])
          /\ Len(EndpointsOf(f)) = 2
    /\ \E n, m \in 1..Len(loaded) :
          /\ n < m
          /\ GetProp(loaded[n], K_method) = GetProp(loaded[m], K_method)
          /\ FullPath(loaded[n]) = FullPath(loaded[m])

\* C12: a file that cannot be read or parsed, or whose content is no
\* sequence, contributes no endpoint; every other file the loop has passed
\* has contributed its valid declarations, whatever came before or after it;
\* and the loader returns only after the last file.
C12_FileFailureContained ==
    /\ \A p \in 1..Len(allFiles) :
          p < fileIdx =>
              LET f == FileAt(allFiles[p])
              IN IF HoldsSequence(f)
                 THEN Len(EndpointsOf(f)) = Len(ValidDeclarationsOf(f))
                 ELSE EndpointsOf(f) = <<>>
    /\ lpc = "done" => fileIdx > Len(allFiles)
    /\ lpc \in {"glob", "loop", "done"}

\* the loader has returned the endpoints of a file that came after a file it
\* could not parse or read
C12_Witness ==
    /\ lpc = "done"
    /\ \E p, q \in 1..Len(allFiles) :
          /\ p < q
          /\ FileAt(allFiles[p]).content.kind # "parsed"
          /\ EndpointsOf(FileAt(allFiles[q])) # <<>>

\* the endpoints of an earlier file are still in the list after a file whose
\* content is no sequence
C12_WitnessKept ==
    /\ lpc = "done"
    /\ \E p, q \in 1..Len(allFiles) :
          /\ p < q
          /\ EndpointsOf(FileAt(allFiles[p])) # <<>>
          /\ ~HoldsSequence(FileAt(allFiles[q]))

\* C13: the method field of every resolved endpoint is one of the five
\* uppercase names, in whatever letter case the declaration was written.
C13_MethodCanonical ==
    \A e \in LoadedEndpoints : GetProp(e, K_method).v \in ValidMethods

\* the part of C13 the code delivers: the method is one of the five names up
\* to letter case, and a declaration in lower case is accepted
C13_MethodRecognizedIgnoringCase ==
    /\ \A e \in LoadedEndpoints : ToUpperCase(GetProp(e, K_method).v) \in ValidMethods
    /\ (lpc = "done" /\ F_mixed \in Enumerated) =>
           \E e \in LoadedEndpoints : GetProp(e, K_method).v = <<"g","e","t">>

\* the characters of the file names of this model, in code-unit order
Alphabet ==
    <<".", "/", "0","1","2","3","4","5","6","7","8","9",
      "a","b","c","d","e","f","g","h","i","j","k","l","m",
      "n","o","p","q","r","s","t","u","v","w","x","y","z">>

CharRank(c) == CHOOSE n \in 1..Len(Alphabet) : Alphabet[n] = c

\* a comes before b in lexical order
RECURSIVE LexLess(_, _)
LexLess(a, b) ==
    IF b = <<>> THEN FALSE
    ELSE IF a = <<>> THEN TRUE
    ELSE IF Head(a) = Head(b) THEN LexLess(Tail(a), Tail(b))
    ELSE CharRank(Head(a)) < CharRank(Head(b))

\* the position in allFiles of the file endpoint e comes from
FilePosition(e) == CHOOSE p \in 1..Len(allFiles) : allFiles[p] = GetProp(e, K_filePath).v

\* the output goes file by file in the order of allFiles, and within a file
\* in the order of its declarations
OutputFollowsEnumeration ==
    /\ \A n, m \in 1..Len(loaded) : n < m => FilePosition(loaded[n]) <= FilePosition(loaded[m])
    /\ \A f \in Enumerated :
          /\ Len(EndpointsOf(f)) = Len(ValidDeclarationsOf(f))
          /\ \A n \in 1..Len(EndpointsOf(f)) :
                CarriesFields(EndpointsOf(f)[n], ValidDeclarationsOf(f)[n])

\* C19: the output goes file by file in enumeration order and within a file
\* in declaration order, and the files are enumerated in the lexical order
\* of their paths taken without the extension, so that .yaml and .yml do not
\* decide a file's position.
C19_LexicalFileOrder ==
    lpc = "done" =>
        /\ OutputFollowsEnumeration
        /\ \A p, q \in 1..Len(allFiles) :
              p < q => ~LexLess(RelativeName(FileAt(allFiles[q])), RelativeName(FileAt(allFiles[p])))

\* the part of C19 the code delivers: the output follows the enumeration,
\* in which every .yaml file comes before every .yml file
C19_YamlFilesBeforeYmlFiles ==
    lpc = "done" =>
        /\ OutputFollowsEnumeration
        /\ \A p, q \in 1..Len(allFiles) :
              (FileAt(allFiles[p]).ext = <<"y","m","l">> /\ FileAt(allFiles[q]).ext = <<"y","a","m","l">>)
                  => q < p

\* users.yaml has been enumerated before mixed.yml and its endpoints come
\* first in the output
C19_WitnessExtensionDecides ==
    /\ lpc = "done"
    /\ allFiles = <<AbsPath(F_users), AbsPath(F_mixed)>>
    /\ IsFrom(F_users, loaded[1]) /\ IsFrom(F_mixed, loaded[Len(loaded)])

\* the delayMs of a resolved endpoint is absent or a number that is not
\* negative
DelayWellTyped(e) ==
    \/ ~DeclaresKey(e, K_delayMs)
    \/ /\ GetProp(e, K_delayMs).t = "number"
       /\ GetProp(e, K_delayMs).v >= 0

\* C22: every resolved endpoint has a path, and hence a fullPath, that
\* starts with "/", a status that is an integer and a delayMs that is absent
\* or a non-negative integer: a declaration that breaks one of these rules
\* is rejected as invalid.
C22_WellTypedEndpoints ==
    \A e \in LoadedEndpoints :
        /\ StartsWith(DeclaredPath(e), Slash)
        /\ StartsWith(FullPath(e), Slash)
        /\ GetProp(e, K_status).t = "number" /\ GetProp(e, K_status).v \in Int
        /\ DelayWellTyped(e)

\* the part of C22 the code delivers: the path is a text, the status a
\* number, the body present, and the fullPath of an endpoint from any file but
\* the root index file starts with "/"
C22_TypesOfRequiredFields ==
    \A e \in LoadedEndpoints :
        /\ GetProp(e, K_path).t = "string"
        /\ GetProp(e, K_status).t = "number"
        /\ GetProp(e, K_body) # Undef
        /\ ~IsRootIndex(SourceFile(e)) => StartsWith(FullPath(e), Slash)

\* the loader has returned an endpoint whose path and fullPath do not start
\* with "/", one with a negative delayMs and one whose delayMs is a text
C22_WitnessIllTypedEmitted ==
    /\ lpc = "done"
    /\ \E e \in LoadedEndpoints :
          /\ ~StartsWith(DeclaredPath(e), Slash)
          /\ ~StartsWith(FullPath(e), Slash)
    /\ \E e \in LoadedEndpoints :
          GetProp(e, K_delayMs).t = "number" /\ GetProp(e, K_delayMs).v < 0
    /\ \E e \in LoadedEndpoints : GetProp(e, K_delayMs).t = "string"

----------------------------------------------------------------------------
(* Claims about the process (checked under SpecStart) *)

\* C14: the process ends only when the root directory does not exist, and
\* then without having loaded anything or created a server; when the
\* directory exists, startServer ends up listening whatever the directory
\* holds, an empty endpoint list included.
C14_OnlyMissingRootIsFatal ==
    /\ ppc = "exited" => ~dirExists
    /\ ~dirExists => lpc = "idle" /\ loaded = <<>> /\ spc = "idle" /\ ppc # "listening"
    /\ (dirExists /\ lpc = "done" /\ ppc # "load") => ppc = "listening"

\* the part of C14 the code delivers: with the directory present the process
\* ends only when a resolved endpoint's pattern does not compile
C14_FatalOnlyForMissingRootOrBadPattern ==
    /\ ppc = "exited" =>
          \/ ~dirExists
          \/ \E e \in LoadedEndpoints : ~PatternCompiles(FullPath(e))
    /\ ~dirExists => lpc = "idle" /\ loaded = <<>> /\ spc = "idle" /\ ppc # "listening"
    /\ (dirExists /\ lpc = "done" /\ ppc # "load" /\ \A e \in LoadedEndpoints : PatternCompiles(FullPath(e)))
          => ppc = "listening"

\* startServer is listening with no endpoint at all, the directory holding
\* only a file it could not parse
C14_WitnessEmptyList ==
    ppc = "listening" /\ loaded = <<>> /\ F_broken \in mockFiles

\* the process has ended without loading because the directory is missing
C14_WitnessMissingRoot == ppc = "exited" /\ ~dirExists /\ lpc = "idle"

----------------------------------------------------------------------------
(* Claims about the server (checked under Spec) *)

Sent == { i \in 1..Len(reqs) : reqs[i].state = "sent" }
\* the requests a route handler took (answered or still in its delay)
Routed == { i \in 1..Len(reqs) : reqs[i].ep > 0 }

EpMethod(k) == ToUpperCase(GetProp(endpoints[k], K_method).v)
EpFullPath(k) == GetProp(endpoints[k], K_fullPath).v
EpStatus(k) == GetProp(endpoints[k], K_status).v
EpBody(k) == GetProp(endpoints[k], K_body)
EpFile(k) == GetProp(endpoints[k], K_filePath).v

\* the endpoints declared with the method and fullPath of endpoint k
SameRoute(k) ==
    { j \in 1..Len(endpoints) : EpMethod(j) = EpMethod(k) /\ EpFullPath(j) = EpFullPath(k) }

First(S) == CHOOSE i \in S : \A j \in S : i <= j
Last(S) == CHOOSE i \in S : \A j \in S : j <= i

Unmatched(i) ==
    /\ reqs[i].request.payload.kind # "malformed"
    /\ stack[FirstMatch(stack, reqs[i].request.method, reqs[i].request.path)].kind = "fallback"

\* C2: a request that matches no registered route is answered 404 with a
\* body of exactly the fields error, path, method, message, where path is the
\* full path requested and method the method requested.
C2_UnmatchedAnswered404 ==
    \A i \in Sent :
        Unmatched(i) =>
            /\ reqs[i].response.status = 404
            /\ reqs[i].response.body.t = "object"
            /\ reqs[i].response.body.k = <<K_error, K_path, K_method, K_message>>
            /\ GetProp(reqs[i].response.body, K_path) = Str(reqs[i].request.path)
            /\ GetProp(reqs[i].response.body, K_method) = Str(reqs[i].request.method)

\* the part of C2 the code delivers: everything but the path field
C2_UnmatchedAnswered404ExceptPath ==
    \A i \in Sent :
        Unmatched(i) =>
            /\ reqs[i].response.status = 404
            /\ reqs[i].response.body.t = "object"
            /\ reqs[i].response.body.k = <<K_error, K_path, K_method, K_message>>
            /\ GetProp(reqs[i].response.body, K_method) = Str(reqs[i].request.method)

EpDelay(k) == IF HasDelay(endpoints[k]) THEN GetProp(endpoints[k], K_delayMs).v ELSE 0

\* C3: a request matched to an endpoint with delayMs > 0 is not answered
\* before its delay has elapsed (it has no response while it waits), and a
\* waiting request blocks nothing: whatever requests are suspended, a further
\* request can be received and answered, and every suspended request whose
\* delay is over can be answered.
C3_DelayPerRequestNonBlocking ==
    /\ \A i \in Routed :
          /\ reqs[i].state = "sent" => reqs[i].sentAt >= reqs[i].at + EpDelay(reqs[i].ep)
          /\ reqs[i].state = "delay" =>
                /\ EpDelay(reqs[i].ep) > 0
                /\ reqs[i].response.body = Undef
    /\ (spc = "serving" /\ Len(reqs) < MaxRequests) => CanReceive
    /\ \A i \in 1..Len(reqs) :
          (spc = "serving" /\ reqs[i].state = "delay" /\ now >= reqs[i].at + EpDelay(reqs[i].ep))
              => CanResume(i)

\* a request issued later to a zero-delay endpoint has been answered while an
\* earlier one is still waiting for its delay
C3_Witness ==
    \E i, j \in 1..Len(reqs) :
        /\ i < j
        /\ reqs[i].state = "delay" /\ now < reqs[i].due
        /\ reqs[j].state = "sent" /\ reqs[j].ep > 0 /\ EpDelay(reqs[j].ep) = 0
        /\ reqs[j].at >= reqs[i].at

\* the same for a later request with a shorter delay
C3_WitnessShorterDelay ==
    \E i, j \in 1..Len(reqs) :
        /\ i < j
        /\ reqs[i].state = "delay" /\ now < reqs[i].due
        /\ reqs[j].state = "sent" /\ reqs[j].ep > 0 /\ EpDelay(reqs[j].ep) > 0

\* the pieces of s between its "/" characters, the leading "/" dropped
RECURSIVE SplitSlash(_)
SplitSlash(s) ==
    IF \A i \in 1..Len(s) : s[i] # "/" THEN <<s>>
    ELSE LET n == CHOOSE i \in 1..Len(s) : s[i] = "/" /\ \A j \in 1..(i - 1) : s[j] # "/"
         IN <<SubSeq(s, 1, n - 1)>> \o SplitSlash(Drop(s, n))

Segments(path) == IF path # <<>> /\ Head(path) = "/" THEN SplitSlash(Tail(path)) ELSE SplitSlash(path)

IsParamSegment(seg) == Len(seg) >= 2 /\ seg[1] = ":" /\ WordRun(Tail(seg)) = Tail(seg)

WithoutFinalSlash(path) ==
    IF Len(path) > 1 /\ path[Len(path)] = "/" THEN SubSeq(path, 1, Len(path) - 1) ELSE path

C6_WitnessLoose ==
    \E i \in Routed : reqs[i].request.path = <<"/","P","I","N","G","/">> /\ EpFullPath(reqs[i].ep) = <<"/","p","i","n","g">>

\* GET /users/a%20b was matched to /users/:id with id = "a b"
C6_WitnessDecoded ==
    \E i \in Routed :
        /\ reqs[i].request.path = <<"/","u","s","e","r","s","/","a","%","2","0","b">>
        /\ reqs[i].params = Obj(<<K_id>>, <<Str(<<"a"," ","b">>)>>)

\* endpoint k has one of the five methods, in some letter case
Recognized(k) == EpMethod(k) \in ValidMethods

\* the route layers registered for endpoint k
LayersOf(k) == { n \in 1..Len(stack) : stack[n].kind = "route" /\ stack[n].ep = k }

\* endpoint k's pattern and method fit the request
Fits(k, request) ==
    /\ HandlesMethod(ToLowerCase(EpMethod(k)), request.method)
    /\ MatchPath(EpFullPath(k), request.path).ok

\* the request is addressed to an endpoint that has no recognized method:
\* its fullPath, its method
AddressesSkipped(request) ==
    \E k \in 1..Len(endpoints) :
        ~Recognized(k) /\ request.path = EpFullPath(k) /\ request.method = EpMethod(k)

C16_RequestLifeCycle ==
    \A i \in 1..Len(reqs) :
        /\ reqs[i].state \in {"delay", "sent"}
        /\ reqs[i].state = "delay" => i \in Routed /\ EpDelay(reqs[i].ep) > 0
        /\ reqs[i].state = "sent" =>
              IF i \in Routed
              THEN /\ reqs[i].response.status = EpStatus(reqs[i].ep)
                   /\ reqs[i].sentAt >= reqs[i].at + EpDelay(reqs[i].ep)
              ELSE Unmatched(i) /\ reqs[i].response.status = 404

\* the part of C16 the code delivers: besides these, a request ends without
\* a response when its endpoint's status is outside 100..999 (and the process
\* with it), and is answered 400 before any matching when its JSON payload or
\* a percent escape of its path is malformed
C16_LifeCycleWithFailures ==
    /\ \A i \in 1..Len(reqs) :
          /\ reqs[i].state \in {"delay", "sent", "thrown"}
          /\ reqs[i].state = "delay" => i \in Routed /\ EpDelay(reqs[i].ep) > 0
          /\ reqs[i].state = "thrown" => i \in Routed /\ ~StatusSendable(EpStatus(reqs[i].ep))
          /\ reqs[i].state = "sent" =>
                IF i \in Routed
                THEN /\ reqs[i].response.status = EpStatus(reqs[i].ep)
                     /\ reqs[i].sentAt >= reqs[i].at + EpDelay(reqs[i].ep)
                ELSE \/ Unmatched(i) /\ reqs[i].response.status = 404
                     \/ /\ reqs[i].response.status = 400
                        /\ \/ reqs[i].request.payload.kind = "malformed"
                           \/ Contains(reqs[i].request.path, <<"%","z","z">>)
    /\ spc = "crashed" <=> \E i \in 1..Len(reqs) : reqs[i].state = "thrown"

\* the endpoints that fit request i, skipped ones aside
Candidates(i) == { k \in 1..Len(endpoints) : Recognized(k) /\ Fits(k, reqs[i].request) }

ParamCount(k) == Cardinality({ n \in 1..Len(EpFullPath(k)) : EpFullPath(k)[n] = ":" })

\* C20: a request that fits several registered endpoints is served by the
\* one that comes first in the list and answered with its status, whether or
\* not a later one fits more literally; a request answered 404 fits none.
C20_FirstFittingEndpointServes ==
    /\ \A i \in Routed :
          LET fitting == Candidates(i)
          IN /\ fitting # {}
             /\ reqs[i].ep = First(fitting)
             /\ reqs[i].state = "sent" => reqs[i].response.status = EpStatus(First(fitting))
    /\ \A i \in Sent \ Routed : reqs[i].response.status = 404 => Candidates(i) = {}

\* GET /users/42/extra, which fits /users/:id/:tab and the later, more
\* literal /users/:id/extra, has been answered by the former; GET /users/me,
\* which fits /users/me and the later /users/:id, is served by /users/me
C20_Witness ==
    /\ \E i \in Sent \cap Routed :
          /\ \E k \in Candidates(i) :
                /\ k > reqs[i].ep
                /\ EpFullPath(k) # EpFullPath(reqs[i].ep)
                /\ ParamCount(k) < ParamCount(reqs[i].ep)
          /\ reqs[i].response.status = 200
    /\ \E i \in Routed :
          /\ reqs[i].request.path = <<"/","u","s","e","r","s","/","m","e">>
          /\ EpFullPath(reqs[i].ep) = <<"/","u","s","e","r","s","/","m","e">>
          /\ \E k \in Candidates(i) : EpFullPath(k) = <<"/","u","s","e","r","s","/",":","i","d">>

\* what the handler of endpoint k answers to a request taken alone: the body
\* of k as it is declared, rendered with the values captured from the
\* request's own path, its own query and its own body
OwnResponse(k, request) ==
    RouteResponse(endpoints[k], request,
                  ParamsOf(MatchPath(EpFullPath(k), request.path).caps))

\* every response sent so far is the one its request gets alone
AnsweredAlone ==
    /\ \A i \in Sent \cap Routed :
          reqs[i].response = OwnResponse(reqs[i].ep, reqs[i].request)
    /\ \A i \in Sent \ Routed :
          reqs[i].response \in {FallbackResponse(reqs[i].request), BadRequestResponse}
    /\ \A i, j \in Sent :
          reqs[i].request = reqs[j].request => reqs[i].response = reqs[j].response

\* a step of the server leaves the endpoint list as it is and, once the routes
\* are registered, the stack too
TableKept ==
    /\ endpoints' = endpoints
    /\ spc # "create" => stack' = stack

C21_WitnessOtherRequestMeanwhile ==
    \E i, j \in Sent \cap Routed :
        /\ reqs[i].request # reqs[j].request
        /\ EpDelay(reqs[i].ep) > 0
        /\ reqs[i].at <= reqs[j].at /\ reqs[j].sentAt < reqs[i].sentAt
        /\ reqs[j].response.body = Str(<<"A","n","n">>)
        /\ reqs[i].response.body = Obj(<<K_id, K_q>>, <<Str(<<"U","s","e","r"," ","4","2">>), Str(<<"x">>)>>)

----------------------------------------------------------------------------
(* Claims about rendering (checked under SpecRender) *)

Bag(p) ==
    CASE p.kind = "path" -> rin.params
      [] p.kind = "query" -> rin.query
      [] p.kind = "body" -> rin.body

Placeholders == { i \in 1..Len(rin.parts) : rin.parts[i].kind # "lit" }

\* the name of placeholder i is present in the bag of its scope
Present(i) == HasOwn(Bag(rin.parts[i]), rin.parts[i].name)

\* the declared leaf with every present placeholder replaced by the text of
\* its bag's value, the literal parts and the absent placeholders kept
RECURSIVE SubstitutedText(_)
SubstitutedText(i) ==
    IF i > Len(rin.parts) THEN <<>>
    ELSE (IF i \in Placeholders /\ Present(i)
          THEN JsToString(GetProp(Bag(rin.parts[i]), rin.parts[i].name))
          ELSE PartText(rin.parts[i])) \o SubstitutedText(i + 1)

\* C4: every occurrence of :name, {{query.name}} and {{body.name}} whose name
\* is present in its bag is replaced by the bag's value, whatever the value
\* (empty string, 0 and false included), at any depth, with the literal text
\* around it preserved (stated for mappings without the key __proto__, whose
\* fate is the matter of C17).
C4_PresentValuesSubstituted ==
    (rpc = "returned" /\ rin.wrap # "proto" /\ Placeholders # {} /\ \A i \in Placeholders : Present(i))
        => rout = Wrap(rin.wrap, Str(SubstitutedText(1)))

\* the text holds no character a placeholder starts with
Plain(text) == \A n \in 1..Len(text) : text[n] \notin {":", "{"}

\* the same restricted to truthy values that hold no placeholder text
\* themselves, in a mapping without the key __proto__: what the code does
\* deliver
C4_TruthyValuesSubstituted ==
    (/\ rpc = "returned"
     /\ rin.wrap # "proto"
     /\ Placeholders # {}
     /\ \A i \in Placeholders :
            /\ Present(i)
            /\ Truthy(GetProp(Bag(rin.parts[i]), rin.parts[i].name))
            /\ Plain(JsToString(GetProp(Bag(rin.parts[i]), rin.parts[i].name))))
        => rout = Wrap(rin.wrap, Str(SubstitutedText(1)))

\* C5: a placeholder whose name is absent from its bag is left in the
\* rendered body as the identical literal text.
C5_MissingPlaceholderKept ==
    (rpc = "returned" /\ rin.wrap # "proto" /\ Placeholders # {} /\ \A i \in Placeholders : ~Present(i))
        => rout = Wrap(rin.wrap, Str(PartsText(rin.parts)))

\* the same for names that Object.prototype does not define
C5_MissingPlainNameKept ==
    (/\ rpc = "returned"
     /\ Placeholders # {}
     /\ rin.wrap # "proto"
     /\ \A i \in Placeholders :
            ~Present(i) /\ rin.parts[i].name \notin ObjectPrototypeKeys \cup {ProtoKey})
        => rout = Wrap(rin.wrap, Str(PartsText(rin.parts)))

\* b has the shape of template a: the same keys in the same order for a
\* mapping, the same length for a sequence, a string for a string, and the
\* identical value for a number, a boolean or null
RECURSIVE SameShape(_, _)
SameShape(a, b) ==
    CASE a.t = "string" -> b.t = "string"
      [] a.t = "object" ->
           /\ b.t = "object"
           /\ b.k = a.k
           /\ Len(b.v) = Len(a.v)
           /\ \A n \in 1..Len(a.v) : SameShape(a.v[n], b.v[n])
      [] a.t = "array" ->
           /\ b.t = "array"
           /\ Len(b.v) = Len(a.v)
           /\ \A n \in 1..Len(a.v) : SameShape(a.v[n], b.v[n])
      [] OTHER -> b = a

Template == Wrap(rin.wrap, Str(PartsText(rin.parts)))

\* C17: the rendered body has the shape of the declared body: mappings keep
\* their keys and their order, sequences their length, and number, boolean
\* and null leaves their value; only string leaves differ.
C17_StructurePreserved == rpc = "returned" => SameShape(Template, rout)

\* the part of C17 the code delivers: the same for a body no mapping of
\* which has the key __proto__
C17_StructurePreservedWithoutProtoKey ==
    (rpc = "returned" /\ rin.wrap # "proto") => SameShape(Template, rout)

ScopeRank(kind) == CASE kind = "path" -> 1 [] kind = "query" -> 2 [] kind = "body" -> 3

BagOf(kind) == CASE kind = "path" -> rin.params [] kind = "query" -> rin.query [] kind = "body" -> rin.body

\* the placeholders a value of this model may consist of
ValuePlaceholders == { QueryPh(K_q), BodyPh(K_name), PathPh(K_id) }

Substitutes(p) == HasOwn(BagOf(p.kind), p.name) /\ Truthy(GetProp(BagOf(p.kind), p.name))

\* What becomes of a value substituted by the step of scope `kind`: when it
\* is the text of a placeholder of a later scope that has a value, that value
\* (and what becomes of it in turn); otherwise the value itself.
RECURSIVE Chained(_, _)
Chained(kind, text) ==
    IF \E p \in ValuePlaceholders :
           PartText(p) = text /\ ScopeRank(p.kind) > ScopeRank(kind) /\ Substitutes(p)
    THEN LET p == CHOOSE p \in ValuePlaceholders :
                      PartText(p) = text /\ ScopeRank(p.kind) > ScopeRank(kind) /\ Substitutes(p)
         IN Chained(p.kind, JsToString(GetProp(BagOf(p.kind), p.name)))
    ELSE text

RECURSIVE ChainedText(_)
ChainedText(i) ==
    IF i > Len(rin.parts) THEN <<>>
    ELSE (IF i \in Placeholders /\ Substitutes(rin.parts[i])
          THEN Chained(rin.parts[i].kind,
                       JsToString(GetProp(BagOf(rin.parts[i].kind), rin.parts[i].name)))
          ELSE PartText(rin.parts[i])) \o ChainedText(i + 1)

\* the request holds no present value that is falsy and the leaf no
\* placeholder named after a property of Object.prototype
NoFalsyNoInherited ==
    /\ \A kind \in {"path", "query", "body"} :
          \A n \in 1..Len(BagOf(kind).v) : Truthy(BagOf(kind).v[n])
    /\ \A i \in Placeholders : rin.parts[i].name \notin ObjectPrototypeKeys \cup {ProtoKey}

\* C18: the path-parameter step comes first, the query step second, the body
\* step third, each on the text the previous one left: a substituted value
\* that is itself a placeholder of a later step is substituted by that step,
\* and a value that is a placeholder of an earlier step (a query or body
\* value :name, a body value {{query.x}}) stays as it is.
C18_SubstitutionsChainInOrder ==
    (rpc = "returned" /\ rin.wrap # "proto" /\ NoFalsyNoInherited)
        => rout = Wrap(rin.wrap, Str(ChainedText(1)))

\* the leaf :id, with id = "{{query.q}}", q = "{{body.name}}" and name =
\* "Ann", has been rendered "Ann"
C18_Witness ==
    /\ rpc = "returned"
    /\ rin.parts = <<PathPh(K_id)>>
    /\ rin.wrap = "bare"
    /\ GetProp(rin.params, K_id) = Str(OpenQuery \o K_q \o CloseBraces)
    /\ GetProp(rin.query, K_q) = Str(OpenBody \o K_name \o CloseBraces)
    /\ GetProp(rin.body, K_name) = Str(<<"A","n","n">>)
    /\ rout = Str(<<"A","n","n">>)

\* the leaf {{query.q}} with q = ":id" and id = "42" has been rendered ":id"
C18_WitnessNoPathStepAfter ==
    /\ rpc = "returned"
    /\ rin.parts = <<QueryPh(K_q)>>
    /\ rin.wrap = "bare"
    /\ GetProp(rin.params, K_id) = Str(<<"4","2">>)
    /\ GetProp(rin.query, K_q) = Str(<<":">> \o K_id)
    /\ rout = Str(<<":">> \o K_id)

----------------------------------------------------------------------------
(* Claims about the generator (checked under SpecGenerate) *)

\* resolved endpoint e comes from the generated declaration
Generated(e) ==
    /\ GetProp(e, K_filePath).v = generateFilePath(curlInfo)
    /\ GetProp(e, K_method) = Str(curlInfo.method)
    /\ GetProp(e, K_path) = Str(curlInfo.path)

\* C23: when generateMockFromCurl has written a mock for a request with
\* method M to path P and the output directory is loaded and served, the
\* generated endpoint's fullPath is P, and the request M P is answered by the
\* generated mock and not with 404.
C23_GeneratedMockAnswers ==
    /\ (gpc = "written" /\ lpc = "done") =>
          \E e \in LoadedEndpoints : Generated(e) /\ FullPath(e) = curlInfo.path
    /\ \A i \in 1..Len(reqs) :
          /\ reqs[i].ep > 0
          /\ Generated(endpoints[reqs[i].ep])
          /\ reqs[i].response.status # 404

\* the part of C23 the code delivers: the generated declaration is loaded
\* when its method is one of the five, its fullPath is the prefix of the
\* file it was written to followed by P, which is P only for the index file
\* at the root, and only then the request is served by the generated mock
C23_RoundTripThroughRootIndexOnly ==
    /\ (gpc = "written" /\ lpc = "done") =>
          /\ curlInfo.method \in ValidMethods <=> \E e \in LoadedEndpoints : Generated(e)
          /\ \A e \in LoadedEndpoints :
                Generated(e) =>
                    /\ FullPath(e) =
                          Squeezed((IF IsRootIndex(SourceFile(e)) THEN <<>>
                                    ELSE Slash \o RelativeName(SourceFile(e))) \o curlInfo.path)
                    /\ FullPath(e) = curlInfo.path <=> IsRootIndex(SourceFile(e))
    /\ \A i \in 1..Len(reqs) :
          (reqs[i].ep > 0 /\ Generated(endpoints[reqs[i].ep])) =>
              /\ GeneratedName(curlInfo) = [dir |-> <<>>, base |-> IndexName]
              /\ curlInfo.method \in ValidMethods

\* GET /users has been answered 404 by the server run on the directory the
\* mock for GET /users was written to: the mock is there, at /users/users
C23_WitnessNotFound ==
    \E i \in 1..Len(reqs) :
        /\ reqs[i].request.method = <<"G","E","T">>
        /\ reqs[i].request.path = <<"/","u","s","e","r","s">>
        /\ reqs[i].state = "sent" /\ reqs[i].response.status = 404
        /\ \E k \in 1..Len(endpoints) :
              /\ Generated(endpoints[k])
              /\ EpFullPath(k) = <<"/","u","s","e","r","s","/","u","s","e","r","s">>

\* the request of a mock written to the index file at the root has been
\* answered by the mock after its delay
C23_WitnessRoundTrip ==
    \E i \in 1..Len(reqs) :
        /\ reqs[i].ep > 0 /\ Generated(endpoints[reqs[i].ep])
        /\ reqs[i].state = "sent"
        /\ reqs[i].sentAt >= 50
        /\ reqs[i].response.status = getDefaultStatusCode(curlInfo.method)

\* the mock has replaced the entry with its method and path in a file that
\* was there, and the other entry of the file is still served
C23_WitnessMerged ==
    /\ lpc = "done" /\ gpc = "written"
    /\ \E f \in mockFiles :
          /\ AbsPath(f) = AbsPath(F_users)
          /\ Len(f.content.value.v) = 2
          /\ f.content.value.v[1] # F_users.content.value.v[1]
          /\ f.content.value.v[2] = F_users.content.value.v[2]

====
